---- MODULE Spec2Model ----
(***************************************************************************)
(* Medication & Formulation Resolver of the UK pharmacy label generator    *)
(* (uk-pharmacy-labels/js/medication-manager.js).                          *)
(*                                                                         *)
(* A JavaScript string is a sequence of one-character strings, so that     *)
(* toLowerCase, trim, the regular-expression replacements, split, sort and *)
(* includes are computed character by character as the engine does.        *)
(***************************************************************************)
EXTENDS Integers, Sequences, FiniteSets, TLC

VARIABLES
    medications,        \* this.medications        : sequence of [name, aliases]
    formulations,       \* this.formulations       : [loaded, table]
    medicationWarnings, \* this.medicationWarnings : sequence of [name, formulation, label_number]
    _medNameIndex,      \* Map key -> position in medications, or null
    _aliasIndex,        \* Map key -> position in medications, or null
    _warningIndex,      \* Map key -> sequence of positions in medicationWarnings, or null
    _normCache,         \* Map 'n:'+str / 'c:'+str -> normalized string
    pc,                 \* where start-up stands
    call                \* the last operation served: its arguments and its outcome

vars == <<medications, formulations, medicationWarnings, _medNameIndex, _aliasIndex,
          _warningIndex, _normCache, pc, call>>

-----------------------------------------------------------------------------
(* Characters                                                              *)

\* \s of the regular expressions, restricted to the characters of the model
WhiteSpace == {" ", "\t"}

HyphenOrSpace == WhiteSpace \cup {"-"}

LowerOf ==
    "A" :> "a" @@ "B" :> "b" @@ "C" :> "c" @@ "D" :> "d" @@ "E" :> "e" @@ "F" :> "f" @@
    "G" :> "g" @@ "H" :> "h" @@ "I" :> "i" @@ "J" :> "j" @@ "K" :> "k" @@ "L" :> "l" @@
    "M" :> "m" @@ "N" :> "n" @@ "O" :> "o" @@ "P" :> "p" @@ "Q" :> "q" @@ "R" :> "r" @@
    "S" :> "s" @@ "T" :> "t" @@ "U" :> "u" @@ "V" :> "v" @@ "W" :> "w" @@ "X" :> "x" @@
    "Y" :> "y" @@ "Z" :> "z"

UpperOf ==
    "a" :> "A" @@ "b" :> "B" @@ "c" :> "C" @@ "d" :> "D" @@ "e" :> "E" @@ "f" :> "F" @@
    "g" :> "G" @@ "h" :> "H" @@ "i" :> "I" @@ "j" :> "J" @@ "k" :> "K" @@ "l" :> "L" @@
    "m" :> "M" @@ "n" :> "N" @@ "o" :> "O" @@ "p" :> "P" @@ "q" :> "Q" @@ "r" :> "R" @@
    "s" :> "S" @@ "t" :> "T" @@ "u" :> "U" @@ "v" :> "V" @@ "w" :> "W" @@ "x" :> "X" @@
    "y" :> "Y" @@ "z" :> "Z"

\* UTF-16 code units, the order Array.prototype.sort compares strings by
CharCode ==
    "\t" :> 9 @@ " " :> 32 @@ "#" :> 35 @@ "&" :> 38 @@ "+" :> 43 @@ "-" :> 45 @@
    "/" :> 47 @@ "0" :> 48 @@ "1" :> 49 @@ "2" :> 50 @@ "3" :> 51 @@ "4" :> 52 @@
    "5" :> 53 @@ "6" :> 54 @@ "7" :> 55 @@ "8" :> 56 @@ "9" :> 57 @@ ":" :> 58 @@
    "A" :> 65 @@ "B" :> 66 @@ "C" :> 67 @@ "D" :> 68 @@ "E" :> 69 @@ "F" :> 70 @@
    "G" :> 71 @@ "H" :> 72 @@ "I" :> 73 @@ "J" :> 74 @@ "K" :> 75 @@ "L" :> 76 @@
    "M" :> 77 @@ "N" :> 78 @@ "O" :> 79 @@ "P" :> 80 @@ "Q" :> 81 @@ "R" :> 82 @@
    "S" :> 83 @@ "T" :> 84 @@ "U" :> 85 @@ "V" :> 86 @@ "W" :> 87 @@ "X" :> 88 @@
    "Y" :> 89 @@ "Z" :> 90 @@ "_" :> 95 @@ "a" :> 97 @@ "b" :> 98 @@ "c" :> 99 @@
    "d" :> 100 @@ "e" :> 101 @@ "f" :> 102 @@ "g" :> 103 @@ "h" :> 104 @@ "i" :> 105 @@
    "j" :> 106 @@ "k" :> 107 @@ "l" :> 108 @@ "m" :> 109 @@ "n" :> 110 @@ "o" :> 111 @@
    "p" :> 112 @@ "q" :> 113 @@ "r" :> 114 @@ "s" :> 115 @@ "t" :> 116 @@ "u" :> 117 @@
    "v" :> 118 @@ "w" :> 119 @@ "x" :> 120 @@ "y" :> 121 @@ "z" :> 122

LowerChar(c) == IF c \in DOMAIN LowerOf THEN LowerOf[c] ELSE c

UpperChar(c) == IF c \in DOMAIN UpperOf THEN UpperOf[c] ELSE c

\* the absent value (null / undefined) of a string argument
NULL == <<"null">>

\* !str
Falsy(str) == str = NULL \/ str = <<>>

-----------------------------------------------------------------------------
(* String built-ins                                                        *)

toLowerCase(s) == [i \in 1..Len(s) |-> LowerChar(s[i])]

\* first position at or after i whose character is outside class (Len(s)+1 if none)
RECURSIVE SkipWhile(_, _, _)
SkipWhile(s, i, class) ==
    IF i <= Len(s) /\ s[i] \in class THEN SkipWhile(s, i + 1, class) ELSE i

\* last position at or before i whose character is outside class (0 if none)
RECURSIVE SkipBack(_, _, _)
SkipBack(s, i, class) ==
    IF i >= 1 /\ s[i] \in class THEN SkipBack(s, i - 1, class) ELSE i

trim(s) == SubSeq(s, SkipWhile(s, 1, WhiteSpace), SkipBack(s, Len(s), WhiteSpace))

\* a faulty variant: the trim without the lower-casing
LowerTrim_CaseKept(s) == trim(s)

LowerTrim(s) == trim(toLowerCase(s))

\* s.replace(/[class]+/g, ' ')
RECURSIVE ReplaceRunsFrom(_, _, _)
ReplaceRunsFrom(s, i, class) ==
    IF i > Len(s) THEN <<>>
    ELSE IF s[i] \in class
         THEN <<" ">> \o ReplaceRunsFrom(s, SkipWhile(s, i, class), class)
         ELSE <<s[i]>> \o ReplaceRunsFrom(s, i + 1, class)

ReplaceRuns(s, class) == ReplaceRunsFrom(s, 1, class)

\* s.replace(/\s*ch\s*/g, ' '): a match starts at i exactly when ch follows the
\* whole run of white space that starts at i; it takes the white space after ch
RECURSIVE ReplaceSepCharFrom(_, _, _)
ReplaceSepCharFrom(s, i, ch) ==
    IF i > Len(s) THEN <<>>
    ELSE LET j == SkipWhile(s, i, WhiteSpace)
         IN  IF j <= Len(s) /\ s[j] = ch
             THEN <<" ">> \o ReplaceSepCharFrom(s, SkipWhile(s, j + 1, WhiteSpace), ch)
             ELSE <<s[i]>> \o ReplaceSepCharFrom(s, i + 1, ch)

ReplaceSepChar(s, ch) == ReplaceSepCharFrom(s, 1, ch)

\* s.replace(/\s+w\s+/gi, ' '): white space is required on both sides of w, and
\* the white space a match consumed is not available to the next match
RECURSIVE ReplaceSepWordFrom(_, _, _)
ReplaceSepWordFrom(s, i, w) ==
    IF i > Len(s) THEN <<>>
    ELSE LET j == SkipWhile(s, i, WhiteSpace)
             k == j + Len(w)
         IN  IF /\ s[i] \in WhiteSpace
                /\ k <= Len(s)
                /\ toLowerCase(SubSeq(s, j, k - 1)) = w
                /\ s[k] \in WhiteSpace
             THEN <<" ">> \o ReplaceSepWordFrom(s, SkipWhile(s, k, WhiteSpace), w)
             ELSE <<s[i]>> \o ReplaceSepWordFrom(s, i + 1, w)

ReplaceSepWord(s, w) == ReplaceSepWordFrom(s, 1, w)

\* first position at or after i that holds a space (Len(s)+1 if none)
RECURSIVE NextSpace(_, _)
NextSpace(s, i) == IF i <= Len(s) /\ s[i] # " " THEN NextSpace(s, i + 1) ELSE i

\* s.split(' ').filter(w => w.length > 0)
RECURSIVE SplitWordsFrom(_, _)
SplitWordsFrom(s, i) ==
    IF i > Len(s) THEN <<>>
    ELSE IF s[i] = " " THEN SplitWordsFrom(s, i + 1)
         ELSE <<SubSeq(s, i, NextSpace(s, i) - 1)>> \o SplitWordsFrom(s, NextSpace(s, i))

SplitWords(s) == SplitWordsFrom(s, 1)

\* a < b in the order of the default sort comparator
StrLess(a, b) ==
    \E i \in 1..(Len(a) + 1) :
        /\ i <= Len(b) + 1
        /\ \A h \in 1..(i - 1) : a[h] = b[h]
        /\ \/ i > Len(a) /\ i <= Len(b)
           \/ i <= Len(a) /\ i <= Len(b) /\ CharCode[a[i]] < CharCode[b[i]]

RECURSIVE InsertWord(_, _)
InsertWord(sorted, w) ==
    IF sorted = <<>> THEN <<w>>
    ELSE IF StrLess(w, Head(sorted)) THEN <<w>> \o sorted
         ELSE <<Head(sorted)>> \o InsertWord(Tail(sorted), w)

\* words.sort()
RECURSIVE SortWords(_)
SortWords(words) ==
    IF words = <<>> THEN <<>>
    ELSE InsertWord(SortWords(SubSeq(words, 1, Len(words) - 1)), words[Len(words)])

\* words.join(sep)
RECURSIVE JoinWords(_, _)
JoinWords(words, sep) ==
    IF words = <<>> THEN <<>>
    ELSE IF Len(words) = 1 THEN words[1]
         ELSE words[1] \o sep \o JoinWords(Tail(words), sep)

\* hay.includes(needle)
includes(hay, needle) ==
    \E i \in 0..(Len(hay) - Len(needle)) : SubSeq(hay, i + 1, i + Len(needle)) = needle

-----------------------------------------------------------------------------
(* Normalizer                                                              *)

\* a faulty variant: the final trim is forgotten
normalizeDrugName_NoFinalTrim(drugName) ==
    IF Falsy(drugName) THEN <<>>
    ELSE ReplaceRuns(ReplaceRuns(LowerTrim(drugName), HyphenOrSpace), WhiteSpace)

normalizeDrugName(drugName) ==
    IF Falsy(drugName) THEN <<>>
    ELSE trim(ReplaceRuns(ReplaceRuns(LowerTrim(drugName), HyphenOrSpace), WhiteSpace))

\* a faulty variant: "+" is not taken for a separator
normalizeSeparators_PlusKept(drugName) ==
    IF Falsy(drugName) THEN <<>>
    ELSE LET s0 == LowerTrim(drugName)
             s1 == ReplaceSepChar(s0, "/")
             s2 == ReplaceSepChar(s1, "-")
             s4 == ReplaceSepWord(s2, <<"w", "i", "t", "h">>)
             s5 == ReplaceSepWord(s4, <<"a", "n", "d">>)
             s6 == ReplaceSepWord(s5, <<"&">>)
         IN  trim(ReplaceRuns(s6, WhiteSpace))

normalizeSeparators(drugName) ==
    IF Falsy(drugName) THEN <<>>
    ELSE LET s0 == LowerTrim(drugName)
             s1 == ReplaceSepChar(s0, "/")
             s2 == ReplaceSepChar(s1, "-")
             s3 == ReplaceSepChar(s2, "+")
             s4 == ReplaceSepWord(s3, <<"w", "i", "t", "h">>)
             s5 == ReplaceSepWord(s4, <<"a", "n", "d">>)
             s6 == ReplaceSepWord(s5, <<"&">>)
         IN  trim(ReplaceRuns(s6, WhiteSpace))

\* a faulty variant: the words are not sorted
canonicalizeDrugName_Unsorted(drugName) ==
    IF Falsy(drugName) THEN <<>>
    ELSE JoinWords(SplitWords(normalizeSeparators(drugName)), <<" ">>)

canonicalizeDrugName(drugName) ==
    IF Falsy(drugName) THEN <<>>
    ELSE JoinWords(SortWords(SplitWords(normalizeSeparators(drugName))), <<" ">>)

-----------------------------------------------------------------------------
(* Outcomes of an operation: a returned value, or a thrown TypeError       *)

Returned(v) == [threw |-> FALSE, value |-> v]

Threw == [threw |-> TRUE, value |-> <<>>]

EmptyMap == [k \in {} |-> k]

\* an index that is still null
NoIndex == [built |-> FALSE, map |-> EmptyMap]

\* Map.prototype.set
MapSet(map, k, v) == [x \in DOMAIN map \cup {k} |-> IF x = k THEN v ELSE map[x]]

\* index?.get(key) is defined
Has(index, key) == index.built /\ key \in DOMAIN index.map

-----------------------------------------------------------------------------
(* Normalization cache                                                     *)

CacheKey(prefix, str) == <<prefix, ":">> \o str

CachedOrComputed(cache, prefix, str, computed) ==
    IF Falsy(str) THEN <<>>
    ELSE IF CacheKey(prefix, str) \in DOMAIN cache THEN cache[CacheKey(prefix, str)]
         ELSE computed

\* the value _cachedNormalize(str) returns in the current state
_cachedNormalize(str) == CachedOrComputed(_normCache, "n", str, normalizeDrugName(str))

\* the value _cachedCanonicalize(str) returns in the current state
_cachedCanonicalize(str) == CachedOrComputed(_normCache, "c", str, canonicalizeDrugName(str))

\* a faulty variant: the canonical form is stored under the key of the normalized
CacheAfterNormalize_StoresCanonical(cache, str) ==
    IF Falsy(str) \/ CacheKey("n", str) \in DOMAIN cache THEN cache
    ELSE MapSet(cache, CacheKey("n", str), canonicalizeDrugName(str))

\* the cache after _cachedNormalize(str): a missing key is set, a present one kept
CacheAfterNormalize(cache, str) ==
    IF Falsy(str) \/ CacheKey("n", str) \in DOMAIN cache THEN cache
    ELSE MapSet(cache, CacheKey("n", str), normalizeDrugName(str))

CacheAfterCanonicalize(cache, str) ==
    IF Falsy(str) \/ CacheKey("c", str) \in DOMAIN cache THEN cache
    ELSE MapSet(cache, CacheKey("c", str), canonicalizeDrugName(str))

\* the cache after both cached functions have been called on each string of strs
\* (every caller calls the two together)
RECURSIVE CacheAfterAll(_, _)
CacheAfterAll(cache, strs) ==
    IF strs = <<>> THEN cache
    ELSE CacheAfterAll(CacheAfterCanonicalize(CacheAfterNormalize(cache, Head(strs)),
                                              Head(strs)),
                       Tail(strs))

-----------------------------------------------------------------------------
(* Index construction                                                      *)

SpecialistSuffix ==
    <<"-", "s", "p", "e", "c", "i", "a", "l", "i", "s", "t", "-", "d", "r", "u", "g">>

\* name.replace(/-Specialist-Drug$/i, '')
StripSpecialist(name) ==
    LET n == Len(name)
        k == Len(SpecialistSuffix)
    IN  IF n >= k /\ toLowerCase(SubSeq(name, n - k + 1, n)) = SpecialistSuffix
        THEN SubSeq(name, 1, n - k)
        ELSE name

\* a faulty variant: the normalized key is left out
VariantKeys_NoNormalized(name) == <<_cachedCanonicalize(name), LowerTrim(name)>>

\* a faulty variant: the canonical key is left out
VariantKeys_NoCanonical(name) == <<_cachedNormalize(name), LowerTrim(name)>>

\* the three keys a name is stored under
VariantKeys(name) == <<_cachedNormalize(name), _cachedCanonicalize(name), LowerTrim(name)>>

\* a faulty variant: a key that is already set keeps its value
RECURSIVE SetAll_FirstWriter(_, _, _)
SetAll_FirstWriter(map, keys, v) ==
    IF keys = <<>> THEN map
    ELSE SetAll_FirstWriter(IF Head(keys) \in DOMAIN map THEN map
                            ELSE MapSet(map, Head(keys), v),
                            Tail(keys), v)

\* map.set(key, v) for each of the keys in turn
RECURSIVE SetAll(_, _, _)
SetAll(map, keys, v) ==
    IF keys = <<>> THEN map ELSE SetAll(MapSet(map, Head(keys), v), Tail(keys), v)

\* the loop over this.medications (meds) filling _medNameIndex, from record i on
RECURSIVE MedNameIndexFrom(_, _, _)
MedNameIndexFrom(meds, i, map) ==
    IF i > Len(meds) THEN map
    ELSE MedNameIndexFrom(meds, i + 1, SetAll(map, VariantKeys(meds[i].name), i))

\* the inner loop over med.aliases, from alias j on
RECURSIVE AliasesFrom(_, _, _, _)
AliasesFrom(meds, i, j, map) ==
    IF j > Len(meds[i].aliases) THEN map
    ELSE AliasesFrom(meds, i, j + 1, SetAll(map, VariantKeys(meds[i].aliases[j]), i))

RECURSIVE AliasIndexFrom(_, _, _)
AliasIndexFrom(meds, i, map) ==
    IF i > Len(meds) THEN map
    ELSE AliasIndexFrom(meds, i + 1, AliasesFrom(meds, i, 1, map))

InList(list, x) == \E i \in 1..Len(list) : list[i] = x

\* a faulty variant: the entry is pushed whether or not the list includes it
RECURSIVE PushAll_NoDedupe(_, _, _)
PushAll_NoDedupe(map, keys, w) ==
    IF keys = <<>> THEN map
    ELSE LET k == Head(keys)
             list == IF k \in DOMAIN map THEN map[k] ELSE <<>>
         IN  PushAll_NoDedupe(MapSet(map, k, Append(list, w)), Tail(keys), w)

\* the forEach over the three keys: create the list, push unless included
RECURSIVE PushAll(_, _, _)
PushAll(map, keys, w) ==
    IF keys = <<>> THEN map
    ELSE LET k == Head(keys)
             list == IF k \in DOMAIN map THEN map[k] ELSE <<>>
         IN  PushAll(MapSet(map, k, IF InList(list, w) THEN list ELSE Append(list, w)),
                     Tail(keys), w)

\* the loop over warning.name of entry w of this.medicationWarnings (warns)
RECURSIVE WarningNamesFrom(_, _, _, _)
WarningNamesFrom(warns, w, n, map) ==
    IF n > Len(warns[w].name) THEN map
    ELSE WarningNamesFrom(warns, w, n + 1,
             PushAll(map, VariantKeys(StripSpecialist(warns[w].name[n])), w))

RECURSIVE WarningIndexFrom(_, _, _)
WarningIndexFrom(warns, w, map) ==
    IF w > Len(warns) THEN map
    ELSE WarningIndexFrom(warns, w + 1, WarningNamesFrom(warns, w, 1, map))

RECURSIVE Flatten(_)
Flatten(lists) == IF lists = <<>> THEN <<>> ELSE Head(lists) \o Flatten(Tail(lists))

\* every string _buildIndexes normalizes, in order
BuildStrings(meds, warns) ==
    Flatten([i \in 1..Len(meds) |-> <<meds[i].name>> \o meds[i].aliases])
    \o Flatten([w \in 1..Len(warns) |->
                [n \in 1..Len(warns[w].name) |-> StripSpecialist(warns[w].name[n])]])

-----------------------------------------------------------------------------
(* Formulation classifier                                                  *)

EndsWithS(form) == form # <<>> /\ form[Len(form)] = "s"

\* exact match, or with a trailing "s" stripped or added
AliasMatch(aliases, form) ==
    LET lowerAliases == [i \in 1..Len(aliases) |-> LowerTrim(aliases[i])]
    IN  \/ InList(lowerAliases, form)
        \/ EndsWithS(form) /\ InList(lowerAliases, SubSeq(form, 1, Len(form) - 1))
        \/ ~EndsWithS(form) /\ InList(lowerAliases, form \o <<"s">>)

\* category.split('_')
RECURSIVE SplitUnderscoreFrom(_, _, _)
SplitUnderscoreFrom(s, i, word) ==
    IF i > Len(s) THEN <<word>>
    ELSE IF s[i] = "_" THEN <<word>> \o SplitUnderscoreFrom(s, i + 1, <<>>)
         ELSE SplitUnderscoreFrom(s, i + 1, Append(word, s[i]))

Capitalize(word) == IF word = <<>> THEN <<>> ELSE <<UpperChar(word[1])>> \o Tail(word)

CategoryLabel(category) ==
    LET words == SplitUnderscoreFrom(category, 1, <<>>)
    IN  JoinWords([i \in 1..Len(words) |-> Capitalize(words[i])], <<" ">>)

\* Object.entries(this.formulations.formulations) throws on the missing table
StandardizeThrows(formulation) ==
    ~Falsy(formulation) /\ LowerTrim(formulation) # <<>> /\ ~formulations.loaded

\* the first category, in declaration order, whose aliases match
\* a faulty variant: the last matching category
FirstCategory_Last(form) ==
    LET hits == {c \in 1..Len(formulations.table) :
                    AliasMatch(formulations.table[c].aliases, form)}
    IN  IF hits = {} THEN 0 ELSE CHOOSE c \in hits : \A h \in hits : c >= h

FirstCategory(form) ==
    LET hits == {c \in 1..Len(formulations.table) :
                    AliasMatch(formulations.table[c].aliases, form)}
    IN  IF hits = {} THEN 0 ELSE CHOOSE c \in hits : \A h \in hits : c <= h

\* the value standardizeFormulation returns when it does not throw
StandardizedForm(formulation) ==
    IF Falsy(formulation) THEN <<>>
    ELSE LET form == LowerTrim(formulation)
         IN  IF form = <<>> \/ FirstCategory(form) = 0 THEN form
             ELSE CategoryLabel(formulations.table[FirstCategory(form)].category)

standardizeFormulation(formulation) ==
    IF StandardizeThrows(formulation) THEN Threw
    ELSE Returned(StandardizedForm(formulation))

\* the value areFormulationsSimilar returns when it does not throw
\* a faulty variant: only the first form is looked for in the alias lists
areFormulationsSimilar_OneSided(form1, form2) ==
    IF Falsy(form1) \/ Falsy(form2) THEN FALSE
    ELSE LET normalizedForm1 == LowerTrim(form1)
             normalizedForm2 == LowerTrim(form2)
         IN  \/ normalizedForm1 = normalizedForm2
             \/ StandardizedForm(normalizedForm1) = StandardizedForm(normalizedForm2)
             \/ \E c \in 1..Len(formulations.table) :
                    AliasMatch(formulations.table[c].aliases, normalizedForm1)

areFormulationsSimilar(form1, form2) ==
    IF Falsy(form1) \/ Falsy(form2) THEN FALSE
    ELSE LET normalizedForm1 == LowerTrim(form1)
             normalizedForm2 == LowerTrim(form2)
         IN  \/ normalizedForm1 = normalizedForm2
             \/ StandardizedForm(normalizedForm1) = StandardizedForm(normalizedForm2)
             \/ \E c \in 1..Len(formulations.table) :
                    /\ AliasMatch(formulations.table[c].aliases, normalizedForm1)
                    /\ AliasMatch(formulations.table[c].aliases, normalizedForm2)

\* standardizeFormulation (lines 835-836) throws inside areFormulationsSimilar: the
\* forms differ, so one of them is non-empty and reaches Object.entries
SimilarThrows(form1, form2) ==
    /\ ~Falsy(form1) /\ ~Falsy(form2)
    /\ LowerTrim(form1) # LowerTrim(form2)
    /\ ~formulations.loaded

\* areFormulationsSimilar as a call: a returned boolean, or a thrown TypeError
SimilarOutcome(form1, form2) ==
    IF SimilarThrows(form1, form2) THEN Threw
    ELSE Returned(areFormulationsSimilar(form1, form2))

-----------------------------------------------------------------------------
(* Resolver                                                                *)

\* index?.get(key), with 0 for undefined
RecordAt(index, key) == IF Has(index, key) THEN index.map[key] ELSE 0

\* _warningIndex?.get(key), with the empty list for undefined
WarningsAt(key) == IF Has(_warningIndex, key) THEN _warningIndex.map[key] ELSE <<>>

\* lines 686-688: the list under the normalized, else canonical, else raw key
\* a faulty variant: the canonical key is probed before the normalized key
DirectWarnings_CanonicalFirst(medicationName) ==
    LET normalizedMed == _cachedNormalize(medicationName)
        canonicalMed == _cachedCanonicalize(medicationName)
    IN  IF Has(_warningIndex, canonicalMed) THEN WarningsAt(canonicalMed)
        ELSE IF Has(_warningIndex, normalizedMed) THEN WarningsAt(normalizedMed)
        ELSE WarningsAt(LowerTrim(medicationName))

\* a faulty variant: the raw key is probed before the normalized key
DirectWarnings_RawFirst(medicationName) ==
    LET normalizedMed == _cachedNormalize(medicationName)
        canonicalMed == _cachedCanonicalize(medicationName)
    IN  IF Has(_warningIndex, LowerTrim(medicationName))
        THEN WarningsAt(LowerTrim(medicationName))
        ELSE IF Has(_warningIndex, normalizedMed) THEN WarningsAt(normalizedMed)
        ELSE WarningsAt(canonicalMed)

DirectWarnings(medicationName) ==
    LET normalizedMed == _cachedNormalize(medicationName)
        canonicalMed == _cachedCanonicalize(medicationName)
    IN  IF Has(_warningIndex, normalizedMed) THEN WarningsAt(normalizedMed)
        ELSE IF Has(_warningIndex, canonicalMed) THEN WarningsAt(canonicalMed)
        ELSE WarningsAt(LowerTrim(medicationName))

\* line 688 is reached with an absent name: medicationName.toLowerCase() throws
RawLookupThrows(medicationName) ==
    /\ medicationName = NULL
    /\ _warningIndex.built
    /\ ~Has(_warningIndex, _cachedNormalize(medicationName))
    /\ ~Has(_warningIndex, _cachedCanonicalize(medicationName))

\* lines 692-695: the record of the name, 0 if none
\* a faulty variant: the alias index is probed before the name index
RecordOf_AliasFirst(medicationName) ==
    LET normalizedMed == _cachedNormalize(medicationName)
        canonicalMed == _cachedCanonicalize(medicationName)
    IN  IF Has(_aliasIndex, normalizedMed) THEN RecordAt(_aliasIndex, normalizedMed)
        ELSE IF Has(_aliasIndex, canonicalMed) THEN RecordAt(_aliasIndex, canonicalMed)
        ELSE IF Has(_medNameIndex, normalizedMed) THEN RecordAt(_medNameIndex, normalizedMed)
        ELSE RecordAt(_medNameIndex, canonicalMed)

RecordOf(medicationName) ==
    LET normalizedMed == _cachedNormalize(medicationName)
        canonicalMed == _cachedCanonicalize(medicationName)
    IN  IF Has(_medNameIndex, normalizedMed) THEN RecordAt(_medNameIndex, normalizedMed)
        ELSE IF Has(_medNameIndex, canonicalMed) THEN RecordAt(_medNameIndex, canonicalMed)
        ELSE IF Has(_aliasIndex, normalizedMed) THEN RecordAt(_aliasIndex, normalizedMed)
        ELSE RecordAt(_aliasIndex, canonicalMed)

\* lines 699-706
\* a faulty variant: the keys of the record's own name are left out
NamesToTry_AliasesOnly(med) ==
    Flatten([j \in 1..Len(medications[med].aliases) |->
                <<_cachedNormalize(medications[med].aliases[j]),
                  _cachedCanonicalize(medications[med].aliases[j])>>])

NamesToTry(med) ==
    <<_cachedNormalize(medications[med].name), _cachedCanonicalize(medications[med].name)>>
    \o Flatten([j \in 1..Len(medications[med].aliases) |->
                   <<_cachedNormalize(medications[med].aliases[j]),
                     _cachedCanonicalize(medications[med].aliases[j])>>])

\* lines 708-711: the first non-empty list, else what the last get returned
RECURSIVE FirstWarnings(_)
FirstWarnings(names) ==
    IF names = <<>> THEN <<>>
    ELSE IF WarningsAt(Head(names)) # <<>> THEN WarningsAt(Head(names))
         ELSE FirstWarnings(Tail(names))

\* the candidate list the formulation check runs over
Candidates(medicationName) ==
    IF DirectWarnings(medicationName) # <<>> THEN DirectWarnings(medicationName)
    ELSE IF RecordOf(medicationName) = 0 THEN <<>>
         ELSE FirstWarnings(NamesToTry(RecordOf(medicationName)))

\* lines 718-725
FormMatch(w, normalizedForm, standardizedForm) ==
    \E i \in 1..Len(medicationWarnings[w].formulation) :
        LET form == LowerTrim(medicationWarnings[w].formulation[i])
        IN  \/ includes(normalizedForm, form)
            \/ includes(form, normalizedForm)
            \/ includes(standardizedForm, form)
            \/ includes(form, standardizedForm)
            \/ areFormulationsSimilar(form, normalizedForm)

\* position in list of its first entry that satisfies the match, 0 if none
\* a faulty variant: the last entry that satisfies the match
FirstMatch_Last(list, normalizedForm, standardizedForm) ==
    LET hits == {i \in 1..Len(list) : FormMatch(list[i], normalizedForm, standardizedForm)}
    IN  IF hits = {} THEN 0 ELSE CHOOSE i \in hits : \A h \in hits : i >= h

FirstMatch(list, normalizedForm, standardizedForm) ==
    LET hits == {i \in 1..Len(list) : FormMatch(list[i], normalizedForm, standardizedForm)}
    IN  IF hits = {} THEN 0 ELSE CHOOSE i \in hits : \A h \in hits : i <= h

drugNamesMatch(name1, name2) ==
    IF Falsy(name1) \/ Falsy(name2) THEN FALSE
    ELSE \/ LowerTrim(name1) = LowerTrim(name2)
         \/ normalizeSeparators(name1) = normalizeSeparators(name2)
         \/ canonicalizeDrugName(name1) = canonicalizeDrugName(name2)

\* lines 752-760, for one name of an entry
FallbackNameMatch(medicationName, name) ==
    LET cleanName == StripSpecialist(name)
    IN  \/ _cachedNormalize(cleanName) = _cachedNormalize(medicationName)
        \/ _cachedCanonicalize(cleanName) = _cachedCanonicalize(medicationName)
        \/ drugNamesMatch(medicationName, cleanName)

\* lines 765-771: the fallback compares without areFormulationsSimilar
FallbackFormMatch(w, normalizedForm, standardizedForm) ==
    \E i \in 1..Len(medicationWarnings[w].formulation) :
        LET form == LowerTrim(medicationWarnings[w].formulation[i])
        IN  \/ includes(normalizedForm, form)
            \/ includes(form, normalizedForm)
            \/ includes(standardizedForm, form)
            \/ includes(form, standardizedForm)

FallbackHit(w, medicationName, formulation) ==
    /\ \E n \in 1..Len(medicationWarnings[w].name) :
           FallbackNameMatch(medicationName, medicationWarnings[w].name[n])
    /\ FallbackFormMatch(w, LowerTrim(formulation), StandardizedForm(LowerTrim(formulation)))

\* the entry _findWarningLabelsFallback returns from, 0 if none
FallbackEntry(medicationName, formulation) ==
    LET hits == {w \in 1..Len(medicationWarnings) :
                    FallbackHit(w, medicationName, formulation)}
    IN  IF hits = {} THEN 0 ELSE CHOOSE w \in hits : \A h \in hits : w <= h

_findWarningLabelsFallback(medicationName, formulation) ==
    IF FallbackEntry(medicationName, formulation) = 0 THEN <<>>
    ELSE medicationWarnings[FallbackEntry(medicationName, formulation)].label_number

findWarningLabels(medicationName, formulation) ==
    IF formulation = NULL THEN Threw
    ELSE IF StandardizeThrows(LowerTrim(formulation)) THEN Threw
    ELSE IF RawLookupThrows(medicationName) THEN Threw
    ELSE LET normalizedForm == LowerTrim(formulation)
             standardizedForm == StandardizedForm(normalizedForm)
             warnings == Candidates(medicationName)
             hit == FirstMatch(warnings, normalizedForm, standardizedForm)
         IN  IF hit # 0 THEN Returned(medicationWarnings[warnings[hit]].label_number)
             ELSE IF ~_warningIndex.built
                  THEN Returned(_findWarningLabelsFallback(medicationName, formulation))
                  ELSE Returned(<<>>)

\* the names the fallback's some() visits in entry w: up to the first that matches
FallbackVisitedNames(w, medicationName) ==
    LET names == medicationWarnings[w].name
        hits == {n \in 1..Len(names) : FallbackNameMatch(medicationName, names[n])}
        last == IF hits = {} THEN Len(names) ELSE CHOOSE n \in hits : \A h \in hits : n <= h
    IN  [n \in 1..last |-> StripSpecialist(names[n])]

\* every clean name the fallback normalizes before it returns
FallbackStrings(medicationName, formulation) ==
    LET stop == FallbackEntry(medicationName, formulation)
        last == IF stop = 0 THEN Len(medicationWarnings) ELSE stop
    IN  Flatten([w \in 1..last |-> FallbackVisitedNames(w, medicationName)])

\* every string findWarningLabels passes to the cached normalizers, in order
FindStrings(medicationName, formulation) ==
    <<medicationName>>
    \o (IF findWarningLabels(medicationName, formulation).threw THEN <<>>
        ELSE (IF DirectWarnings(medicationName) = <<>> /\ RecordOf(medicationName) # 0
              THEN <<medications[RecordOf(medicationName)].name>>
                   \o medications[RecordOf(medicationName)].aliases
              ELSE <<>>)
             \o (IF ~_warningIndex.built
                    /\ FirstMatch(Candidates(medicationName), LowerTrim(formulation),
                                  StandardizedForm(LowerTrim(formulation))) = 0
                 THEN <<medicationName>> \o FallbackStrings(medicationName, formulation)
                 ELSE <<>>))

-----------------------------------------------------------------------------
(* Reference data and query inputs of the model                            *)

MaxMeds == 1

MaxWarnings == 2

Name_ab == <<"a", " ", "b">>

Name_ba == <<"b", " ", "a">>

Name_x == <<"x">>

\* "A-B-Specialist-Drug"
Name_AB_Specialist ==
    <<"A", "-", "B", "-", "S", "p", "e", "c", "i", "a", "l", "i", "s", "t", "-",
      "D", "r", "u", "g">>

Form_t == <<"t">>

Form_mt == <<"M", " ", "t">>

Form_c == <<"c">>

\* drug_aliases.json: records a table is drawn from
MedicationPool ==
    { [name |-> Name_ab, aliases |-> <<Name_x>>],
      [name |-> Name_x, aliases |-> <<Name_ba>>] }

\* drug_formulations_warnings.json: entries a table is drawn from
WarningPool ==
    { [name |-> <<Name_ab>>, formulation |-> <<Form_t>>, label_number |-> <<1>>],
      [name |-> <<Name_x>>, formulation |-> <<Form_t>>, label_number |-> <<3>>],
      [name |-> <<Name_AB_Specialist, Name_ba>>, formulation |-> <<Form_mt, Form_c>>,
       label_number |-> <<2, 5>>] }

\* formulation_aliases.json: categories in declaration order
FormulationTable ==
    << [category |-> <<"o", "_", "t">>, aliases |-> << <<"t">>, <<"p">> >>],
       [category |-> <<"c">>, aliases |-> << <<"c">>, <<"C", "p">> >>] >>

SeqsOfLen(S, n) == [1..n -> S]

TablesOver(pool, max) == UNION { SeqsOfLen(pool, n) : n \in 0..max }

\* drug names a query is made with
DrugInputs == { NULL, <<>>, Name_ab, Name_x, <<"A", "-", "B">> }

\* formulations a query is made with
FormInputs == { NULL, <<>>, Form_t, Form_c, <<"p">> }

-----------------------------------------------------------------------------
(* Start-up and queries                                                    *)

Init ==
    /\ medications = <<>>
    /\ formulations = [loaded |-> FALSE, table |-> <<>>]
    /\ medicationWarnings = <<>>
    /\ _medNameIndex = NoIndex
    /\ _aliasIndex = NoIndex
    /\ _warningIndex = NoIndex
    /\ _normCache = EmptyMap
    /\ pc = "start"
    /\ call = [op |-> "none", d |-> <<>>, f |-> <<>>, result |-> Returned(<<>>)]

\* _buildIndexes(), lines 99-147, on the tables init has just assigned
_buildIndexes(meds, warns) ==
    /\ _medNameIndex' = [built |-> TRUE, map |-> MedNameIndexFrom(meds, 1, EmptyMap)]
    /\ _aliasIndex' = [built |-> TRUE, map |-> AliasIndexFrom(meds, 1, EmptyMap)]
    /\ _warningIndex' = [built |-> TRUE, map |-> WarningIndexFrom(warns, 1, EmptyMap)]
    /\ _normCache' = CacheAfterAll(_normCache, BuildStrings(meds, warns))

\* init(), lines 35-75: the tables are fetched and assigned, the indexes are built
\* and autocomplete starts
init ==
    /\ pc = "start"
    /\ \E meds \in TablesOver(MedicationPool, MaxMeds),
          warns \in TablesOver(WarningPool, MaxWarnings) :
           /\ medications' = meds
           /\ medicationWarnings' = warns
           /\ _buildIndexes(meds, warns)
    /\ formulations' = [loaded |-> TRUE, table |-> FormulationTable]
    /\ pc' = "listening"
    /\ UNCHANGED call

\* init(), lines 76-80: a fetch failed; autocomplete starts on the empty tables
LoadFails ==
    /\ pc = "start"
    /\ pc' = "listening"
    /\ UNCHANGED <<medications, formulations, medicationWarnings, _medNameIndex,
                   _aliasIndex, _warningIndex, _normCache, call>>

\* a caller asks for the warning labels of (d, f)
FindWarningLabels ==
    /\ pc = "listening"
    /\ \E d \in DrugInputs, f \in FormInputs :
           /\ call' = [op |-> "findWarningLabels", d |-> d, f |-> f,
                       result |-> findWarningLabels(d, f)]
           /\ _normCache' = CacheAfterAll(_normCache, FindStrings(d, f))
    /\ UNCHANGED <<medications, formulations, medicationWarnings, _medNameIndex,
                   _aliasIndex, _warningIndex, pc>>

Next ==
    \/ init
    \/ LoadFails
    \/ FindWarningLabels

Spec == Init /\ [][Next]_vars

\* the longest table of warning entries a failed index build is started on
MaxFailedWarnings == 1

\* a record of drug_aliases.json that lacks its name
NamelessMedication == [name |-> NULL, aliases |-> <<>>]

\* init(), lines 60-70 and 76-80: the tables are fetched and assigned, and
\* _buildIndexes throws at line 112 on a record without a name, after it has set
\* the record under '' (lines 110-111); _warningIndex is still null when
\* autocomplete starts
BuildFails ==
    /\ pc = "start"
    /\ \E meds \in TablesOver(MedicationPool, MaxMeds),
          warns \in TablesOver(WarningPool, MaxFailedWarnings) :
           /\ medications' = Append(meds, NamelessMedication)
           /\ medicationWarnings' = warns
           /\ _medNameIndex' = [built |-> TRUE,
                                map |-> MapSet(MedNameIndexFrom(meds, 1, EmptyMap),
                                               <<>>, Len(meds) + 1)]
           /\ _aliasIndex' = [built |-> TRUE, map |-> AliasIndexFrom(meds, 1, EmptyMap)]
           /\ _normCache' = CacheAfterAll(_normCache, BuildStrings(meds, <<>>))
    /\ formulations' = [loaded |-> TRUE, table |-> FormulationTable]
    /\ pc' = "listening"
    /\ UNCHANGED <<_warningIndex, call>>

\* start-up with every way init() can end, then the queries of the listeners
NextStartup ==
    \/ init
    \/ LoadFails
    \/ BuildFails
    \/ FindWarningLabels

SpecStartup == Init /\ [][NextStartup]_vars

-----------------------------------------------------------------------------
(* Claims about the resolver                                               *)

Served == call.op = "findWarningLabels"

\* the formulations that are strings
FormStrings == FormInputs \ {NULL}

toUpperCase(s) == [i \in 1..Len(s) |-> UpperChar(s[i])]

\* strings that differ from s only in letter case and in white space at the ends
Variants(s) ==
    IF s = NULL THEN {NULL}
    ELSE {s, toUpperCase(s), toLowerCase(s), <<" ">> \o s \o <<"\t", " ">>, trim(s)}

\* C1: on a built data set, resolve returns the empty list and raises nothing when
\* the drug name or the formulation is the empty string, also when the drug has
\* warning entries.
C1_EmptyInputYieldsEmpty ==
    (Served /\ _warningIndex.built /\ call.d # NULL /\ call.f # NULL
            /\ (call.d = <<>> \/ call.f = <<>>)) =>
        call.result = Returned(<<>>)

\* C2: no core operation throws on absent or empty input: resolve returns the
\* empty list, classify and the normalizers return the empty string.
C2_NoThrowOnAbsentOrEmpty ==
    /\ (Served /\ (Falsy(call.d) \/ Falsy(call.f))) => call.result = Returned(<<>>)
    /\ \A x \in {NULL, <<>>} :
           /\ standardizeFormulation(x) = Returned(<<>>)
           /\ normalizeDrugName(x) = <<>>
           /\ normalizeSeparators(x) = <<>>
           /\ canonicalizeDrugName(x) = <<>>

\* the pairs (record, alias position) of the medication table
AliasPairs ==
    {<<m, j>> \in (1..Len(medications)) \X (1..2) : j <= Len(medications[m].aliases)}

NoDirectHit(name) ==
    /\ ~Has(_warningIndex, _cachedNormalize(name))
    /\ ~Has(_warningIndex, _cachedCanonicalize(name))
    /\ ~Has(_warningIndex, LowerTrim(name))

C4_CaseWhitespaceInsensitive ==
    Served =>
        \A d \in Variants(call.d), f \in Variants(call.f) :
            findWarningLabels(d, f) = call.result

C4_Witness ==
    /\ Served
    /\ call.d = <<"A", "-", "B">>
    /\ call.f = Form_t
    /\ call.result = Returned(<<1>>)
    /\ CacheKey("n", call.d) \in DOMAIN _normCache
    /\ CacheKey("n", <<" ", "a", "-", "b", "\t">>) \notin DOMAIN _normCache
    /\ findWarningLabels(<<" ", "a", "-", "b", "\t">>, <<"T", " ">>) = Returned(<<1>>)

\* the match of the claim: containment either way with normForm, containment
\* either way with stdForm, or areSimilar
ClaimedMatch(entry, formulation) ==
    LET normForm == LowerTrim(formulation)
        stdForm == standardizeFormulation(normForm).value
    IN  \E i \in 1..Len(entry.formulation) :
            LET g == LowerTrim(entry.formulation[i])
            IN  \/ includes(normForm, g) \/ includes(g, normForm)
                \/ includes(stdForm, g) \/ includes(g, stdForm)
                \/ areFormulationsSimilar(g, normForm)

\* C5: first match wins: with a non-empty candidate list, resolve returns the label
\* numbers of the first entry of the list with a matching formulation, whatever
\* follows it, and the empty list when no entry matches.
C5_FirstMatchWins ==
    (Served /\ ~call.result.threw /\ Candidates(call.d) # <<>>) =>
        LET list == Candidates(call.d)
            entry(i) == medicationWarnings[list[i]]
        IN  \/ /\ \A i \in 1..Len(list) : ~ClaimedMatch(entry(i), call.f)
               /\ call.result.value = <<>>
            \/ \E i \in 1..Len(list) :
                   /\ ClaimedMatch(entry(i), call.f)
                   /\ \A h \in 1..(i - 1) : ~ClaimedMatch(entry(h), call.f)
                   /\ call.result.value = entry(i).label_number

C5_Witness ==
    /\ Served
    /\ Len(Candidates(call.d)) = 2
    /\ \A i \in 1..2 : ClaimedMatch(medicationWarnings[Candidates(call.d)[i]], call.f)
    /\ medicationWarnings[1].label_number # medicationWarnings[2].label_number
    /\ call.result = Returned(medicationWarnings[Candidates(call.d)[1]].label_number)

\* the triples (entry, name position, formulation position) of the warning table
EntryTriples ==
    {t \in (1..Len(medicationWarnings)) \X (1..2) \X (1..2) :
        /\ t[2] <= Len(medicationWarnings[t[1]].name)
        /\ t[3] <= Len(medicationWarnings[t[1]].formulation)}

CleanName(t) == StripSpecialist(medicationWarnings[t[1]].name[t[2]])

OwnForm(t) == medicationWarnings[t[1]].formulation[t[3]]

ShadowedBy(t) ==
    \E v \in 1..(t[1] - 1) :
        /\ InList(WarningsAt(_cachedNormalize(CleanName(t))), v)
        /\ ClaimedMatch(medicationWarnings[v], OwnForm(t))

HyphensToSpaces(name) == [i \in 1..Len(name) |-> IF name[i] = "-" THEN " " ELSE name[i]]

TestName(t) == HyphensToSpaces(CleanName(t))

\* words[1] + ' ' + words[0], with words = name.split(' ').filter(w => w)
Swapped(name) == SplitWords(name)[2] \o <<" ">> \o SplitWords(name)[1]

TwoWordTriples == {t \in EntryTriples : Len(SplitWords(TestName(t))) = 2}

OnlyEntryUnder(name, w) ==
    \A i \in 1..3 : \A v \in 1..Len(medicationWarnings) :
        InList(WarningsAt(VariantKeys(name)[i]), v) => v = w

-----------------------------------------------------------------------------
(* The normalizers as pure functions: inputs drawn at Init, applied by the *)
(* actions                                                                 *)

MaxToks == 5

MaxWords == 3

\* the pieces the input strings are concatenated from: one family exercises the
\* white-space and hyphen handling, the other the separator words
BasicTokens == { <<" ">>, <<"\t">>, <<"-">>, <<"/">>, <<"a">>, <<"B">> }

SeparatorTokens ==
    { <<" ">>, <<"&">>, <<"a">>, <<"B">>, <<"a", "n", "d">>, <<"w", "i", "t", "h">> }

RECURSIVE Concat(_)
Concat(pieces) == IF pieces = <<>> THEN <<>> ELSE Head(pieces) \o Concat(Tail(pieces))

\* words: non-empty, no white space, no separator
WordPool == { <<"a">>, <<"b">>, <<"B", "a">> }

Separators ==
    { <<" ">>, <<"/">>, <<"-">>, <<"+">>, <<" ", "w", "i", "t", "h", " ">>,
      <<" ", "a", "n", "d", " ">>, <<" ", "&", " ">> }

RECURSIVE JoinWith(_, _)
JoinWith(words, seps) ==
    IF Len(words) = 1 THEN words[1]
    ELSE words[1] \o seps[1] \o JoinWith(Tail(words), Tail(seps))

Pending(arg, words, seps) ==
    [op |-> "pending", arg |-> arg, words |-> words, seps |-> seps, result |-> <<>>]

InitNormalizer ==
    /\ medications = <<>>
    /\ formulations = [loaded |-> FALSE, table |-> <<>>]
    /\ medicationWarnings = <<>>
    /\ _medNameIndex = NoIndex
    /\ _aliasIndex = NoIndex
    /\ _warningIndex = NoIndex
    /\ _normCache = EmptyMap
    /\ pc = "pure"
    /\ \/ call = Pending(NULL, <<>>, <<>>)
       \/ \E n \in 0..MaxToks, family \in {BasicTokens, SeparatorTokens} :
              \E pieces \in SeqsOfLen(family, n) : call = Pending(Concat(pieces), <<>>, <<>>)
       \/ \E n \in 1..MaxWords :
              \E w \in SeqsOfLen(WordPool, n), p \in SeqsOfLen(Separators, n - 1) :
                  call = Pending(JoinWith(w, p), w, p)

Apply(op, value) ==
    /\ call.op = "pending"
    /\ call' = [call EXCEPT !.op = op, !.result = value]
    /\ UNCHANGED <<medications, formulations, medicationWarnings, _medNameIndex,
                   _aliasIndex, _warningIndex, _normCache, pc>>

ApplyNormalizeDrugName == Apply("normalizeDrugName", normalizeDrugName(call.arg))

ApplyNormalizeSeparators == Apply("normalizeSeparators", normalizeSeparators(call.arg))

ApplyCanonicalizeDrugName == Apply("canonicalizeDrugName", canonicalizeDrugName(call.arg))

NextNormalizer ==
    \/ ApplyNormalizeDrugName
    \/ ApplyNormalizeSeparators
    \/ ApplyCanonicalizeDrugName

SpecNormalizer == InitNormalizer /\ [][NextNormalizer]_vars

-----------------------------------------------------------------------------
(* Claims about the normalizers                                            *)

\* C8: canonicalize is idempotent: canonicalize(canonicalize(s)) = canonicalize(s)
\* for every string s, separator words repeated or at either end included.
C8_CanonicalizeIdempotent ==
    call.op = "canonicalizeDrugName" =>
        canonicalizeDrugName(call.result) = call.result

NoDoubleSpace(s) == \A i \in 1..(Len(s) - 1) : ~(s[i] = " " /\ s[i + 1] = " ")

\* C9: normalizeBasic is idempotent, and its result has no hyphen, no leading or
\* trailing space and no two consecutive spaces.
C9_NormalizeBasicIdempotent ==
    call.op = "normalizeDrugName" =>
        /\ normalizeDrugName(call.result) = call.result
        /\ \A i \in 1..Len(call.result) : call.result[i] # "-"
        /\ call.result # <<>> =>
               call.result[1] # " " /\ call.result[Len(call.result)] # " "
        /\ NoDoubleSpace(call.result)

C9_Witness ==
    /\ call.op = "normalizeDrugName"
    /\ call.arg = <<"-", "a", "-", " ", "B">>
    /\ call.result = <<"a", " ", "b">>

\* C10: canonicalize of words joined by any of the separators is the words
\* (lowercased) sorted and joined by single spaces, whatever their order and
\* whichever separators join them.
C10_CanonicalizeWordMultiset ==
    (call.op = "canonicalizeDrugName" /\ call.words # <<>>) =>
        call.result =
            JoinWords(SortWords([i \in 1..Len(call.words) |-> toLowerCase(call.words[i])]),
                      <<" ">>)

C10_Witness ==
    /\ call.op = "canonicalizeDrugName"
    /\ call.words = << <<"b">>, <<"B", "a">>, <<"a">> >>
    /\ call.seps = << <<" ", "w", "i", "t", "h", " ">>, <<"/">> >>
    /\ call.result = <<"a", " ", "b", " ", "b", "a">>

-----------------------------------------------------------------------------
(* The classifier as pure functions of the formulation table: table and    *)
(* inputs drawn at Init, applied by the actions                            *)

MaxCats == 2

\* categories a formulation table is declared from
CategoryPool ==
    { [category |-> <<"o", "_", "t">>, aliases |-> << <<"t">>, <<"P">> >>],
      [category |-> <<"c">>, aliases |-> << <<"t", "s">>, <<"c">> >>],
      [category |-> <<"s", "_", "x">>, aliases |-> << <<"s">> >>] }

\* this.formulations after a load, and the initial {} of a load that failed
FormulationStates ==
    { [loaded |-> TRUE, table |-> t] : t \in TablesOver(CategoryPool, MaxCats) }
    \cup { [loaded |-> FALSE, table |-> <<>>] }

\* formulation strings the classifier is called with
ClassifierInputs ==
    { <<>>, <<" ">>, <<"t">>, <<"T", " ">>, <<"t", "s">>, <<"o", " ", "t">>,
      <<"p">>, <<"c">>, <<"q">> }

InitClassifier ==
    /\ medications = <<>>
    /\ medicationWarnings = <<>>
    /\ _medNameIndex = NoIndex
    /\ _aliasIndex = NoIndex
    /\ _warningIndex = NoIndex
    /\ _normCache = EmptyMap
    /\ pc = "pure"
    /\ formulations \in FormulationStates
    /\ \E a \in ClassifierInputs, b \in ClassifierInputs :
           call = [op |-> "pending", a |-> a, b |-> b, result |-> Returned(<<>>)]

ApplyClassifier(op, outcome) ==
    /\ call.op = "pending"
    /\ call' = [call EXCEPT !.op = op, !.result = outcome]
    /\ UNCHANGED <<medications, formulations, medicationWarnings, _medNameIndex,
                   _aliasIndex, _warningIndex, _normCache, pc>>

ApplyStandardizeFormulation ==
    ApplyClassifier("standardizeFormulation", standardizeFormulation(call.a))

ApplyAreFormulationsSimilar ==
    ApplyClassifier("areFormulationsSimilar", SimilarOutcome(call.a, call.b))

NextClassifier ==
    \/ ApplyStandardizeFormulation
    \/ ApplyAreFormulationsSimilar

SpecClassifier == InitClassifier /\ [][NextClassifier]_vars

-----------------------------------------------------------------------------
(* Claims about the classifier                                             *)

Classified == call.op = "standardizeFormulation" /\ formulations.loaded

\* the alias list holds the form exactly, or with its trailing "s" toggled
ListsForm(c, form) ==
    \E i \in 1..Len(formulations.table[c].aliases) :
        LET alias == LowerTrim(formulations.table[c].aliases[i])
        IN  \/ alias = form
            \/ form # <<>> /\ form[Len(form)] = "s" /\ alias = SubSeq(form, 1, Len(form) - 1)
            \/ (form = <<>> \/ form[Len(form)] # "s") /\ alias = form \o <<"s">>

\* C11: classify returns, for a non-empty input, the title-cased label of the first
\* category in declaration order whose alias list holds the lowercase-trimmed input
\* exactly or with its trailing "s" stripped or added; the lowercase-trimmed input
\* when no category does; the empty string for empty input.
C11_ClassifyFirstCategory ==
    Classified =>
        LET form == LowerTrim(call.a)
            listing == {c \in 1..Len(formulations.table) : ListsForm(c, form)}
        IN  /\ ~call.result.threw
            /\ form = <<>> => call.result.value = <<>>
            /\ (form # <<>> /\ listing = {}) => call.result.value = form
            /\ (form # <<>> /\ listing # {}) =>
                   \E c \in listing :
                       /\ \A h \in listing : c <= h
                       /\ call.result.value = CategoryLabel(formulations.table[c].category)

C11_Witness ==
    /\ Classified
    /\ call.a = <<"T", " ">>
    /\ Len(formulations.table) = 2
    /\ ListsForm(1, <<"t">>) /\ ListsForm(2, <<"t">>)
    /\ formulations.table[1].category = <<"c">>
    /\ formulations.table[2].category = <<"o", "_", "t">>
    /\ call.result = Returned(<<"C">>)

\* C12: classification is substring based: an input that contains an alias of a
\* category as a substring is classified into such a category, also when the whole
\* input is not listed as an alias.
C12_SubstringClassified ==
    Classified =>
        LET form == LowerTrim(call.a)
            holding == {c \in 1..Len(formulations.table) :
                           \E i \in 1..Len(formulations.table[c].aliases) :
                               includes(form, LowerTrim(formulations.table[c].aliases[i]))}
        IN  holding # {} =>
                \E c \in holding :
                    call.result = Returned(CategoryLabel(formulations.table[c].category))

\* C13: areSimilar is symmetric: areSimilar(a, b) = areSimilar(b, a) for every
\* formulation table and all strings a and b.
C13_AreSimilarSymmetric ==
    call.op = "areFormulationsSimilar" => SimilarOutcome(call.b, call.a) = call.result

C13_Witness ==
    /\ call.op = "areFormulationsSimilar"
    /\ call.a = <<"t", "s">>
    /\ call.b = <<"p">>
    /\ StandardizedForm(call.a) # StandardizedForm(call.b)
    /\ call.result = Returned(TRUE)

\* C14: areSimilar is reflexive: areSimilar(a, a) is true for every formulation
\* table and every string a, the empty string and white space included.
C14_AreSimilarReflexive ==
    (call.op = "areFormulationsSimilar" /\ call.a = call.b) => call.result = Returned(TRUE)

-----------------------------------------------------------------------------
(* Shorthand codes (shorthand-codes.js)                                    *)

Digit == {"0", "1", "2", "3", "4", "5", "6", "7", "8", "9"}

Letter == DOMAIN LowerOf \cup DOMAIN UpperOf

\* ShorthandCodes.lowercaseMappings after init(): the mappings under their
\* lower-cased keys; of a key written twice ('am') the later value stands
lowercaseMappings ==
    <<"1", "t">> :> <<"T", "a", "k", "e", " ", "O", "N", "E", " ", "t", "a", "b", "l", "e", "t">> @@
    <<"2", "t">> :> <<"T", "a", "k", "e", " ", "T", "W", "O", " ", "t", "a", "b", "l", "e", "t", "s">> @@
    <<"3", "t">> :> <<"T", "a", "k", "e", " ", "T", "H", "R", "E", "E", " ", "t", "a", "b", "l", "e", "t", "s">> @@
    <<"4", "t">> :> <<"T", "a", "k", "e", " ", "F", "O", "U", "R", " ", "t", "a", "b", "l", "e", "t", "s">> @@
    <<"0", ".", "5", "t">> :> <<"T", "a", "k", "e", " ", "H", "A", "L", "F", " ", "a", " ", "t", "a", "b", "l", "e", "t">> @@
    <<"1", ".", "5", "t">> :> <<"T", "a", "k", "e", " ", "O", "N", "E", " ", "A", "N", "D", " ", "A", " ", "H", "A", "L", "F", " ", "t", "a", "b", "l", "e", "t", "s">> @@
    <<"2", ".", "5", "t">> :> <<"T", "a", "k", "e", " ", "T", "W", "O", " ", "A", "N", "D", " ", "A", " ", "H", "A", "L", "F", " ", "t", "a", "b", "l", "e", "t", "s">> @@
    <<"1", "c">> :> <<"T", "a", "k", "e", " ", "O", "N", "E", " ", "c", "a", "p", "s", "u", "l", "e">> @@
    <<"2", "c">> :> <<"T", "a", "k", "e", " ", "T", "W", "O", " ", "c", "a", "p", "s", "u", "l", "e", "s">> @@
    <<"5", "m", "l">> :> <<"T", "a", "k", "e", " ", "5", "m", "l">> @@
    <<"1", "0", "m", "l">> :> <<"T", "a", "k", "e", " ", "1", "0", "m", "l">> @@
    <<"1", "5", "m", "l">> :> <<"T", "a", "k", "e", " ", "1", "5", "m", "l">> @@
    <<"2", "0", "m", "l">> :> <<"T", "a", "k", "e", " ", "2", "0", "m", "l">> @@
    <<"1", "p">> :> <<"I", "n", "h", "a", "l", "e", " ", "O", "N", "E", " ", "p", "u", "f", "f">> @@
    <<"2", "p">> :> <<"I", "n", "h", "a", "l", "e", " ", "T", "W", "O", " ", "p", "u", "f", "f", "s">> @@
    <<"1", "d">> :> <<"A", "p", "p", "l", "y", " ", "O", "N", "E", " ", "d", "r", "o", "p">> @@
    <<"2", "d">> :> <<"A", "p", "p", "l", "y", " ", "T", "W", "O", " ", "d", "r", "o", "p", "s">> @@
    <<"o", "d">> :> <<"O", "N", "C", "E", " ", "a", " ", "d", "a", "y">> @@
    <<"o", "m">> :> <<"o", "n", " ", "a", " ", "m", "o", "r", "n", "i", "n", "g">> @@
    <<"o", "n">> :> <<"a", "t", " ", "n", "i", "g", "h", "t">> @@
    <<"b", "d">> :> <<"T", "W", "I", "C", "E", " ", "a", " ", "d", "a", "y">> @@
    <<"t", "d", "s">> :> <<"T", "H", "R", "E", "E", " ", "t", "i", "m", "e", "s", " ", "a", " ", "d", "a", "y">> @@
    <<"q", "d", "s">> :> <<"F", "O", "U", "R", " ", "t", "i", "m", "e", "s", " ", "a", " ", "d", "a", "y">> @@
    <<"p", "r", "n">> :> <<"w", "h", "e", "n", " ", "r", "e", "q", "u", "i", "r", "e", "d">> @@
    <<"s", "t", "a", "t">> :> <<"I", "M", "M", "E", "D", "I", "A", "T", "E", "L", "Y">> @@
    <<"m", "a", "n", "e">> :> <<"i", "n", " ", "t", "h", "e", " ", "M", "O", "R", "N", "I", "N", "G">> @@
    <<"n", "o", "c", "t", "e">> :> <<"a", "t", " ", "N", "I", "G", "H", "T">> @@
    <<"a", "l", "t", "d">> :> <<"o", "n", " ", "A", "L", "T", "E", "R", "N", "A", "T", "E", " ", "d", "a", "y", "s">> @@
    <<"a", "l", "t", "m">> :> <<"o", "n", " ", "A", "L", "T", "E", "R", "N", "A", "T", "E", " ", "m", "o", "r", "n", "i", "n", "g", "s">> @@
    <<"a", "l", "t", "e">> :> <<"o", "n", " ", "A", "L", "T", "E", "R", "N", "A", "T", "E", " ", "e", "v", "e", "n", "i", "n", "g", "s">> @@
    <<"a", "l", "t", "n">> :> <<"o", "n", " ", "A", "L", "T", "E", "R", "N", "A", "T", "E", " ", "n", "i", "g", "h", "t", "s">> @@
    <<"1", "w">> :> <<"W", "E", "E", "K", "L", "Y">> @@
    <<"2", "w">> :> <<"e", "v", "e", "r", "y", " ", "T", "W", "O", " ", "w", "e", "e", "k", "s">> @@
    <<"4", "w">> :> <<"e", "v", "e", "r", "y", " ", "F", "O", "U", "R", " ", "w", "e", "e", "k", "s">> @@
    <<"1", "m">> :> <<"M", "O", "N", "T", "H", "L", "Y">> @@
    <<"2", "m">> :> <<"e", "v", "e", "r", "y", " ", "T", "W", "O", " ", "m", "o", "n", "t", "h", "s">> @@
    <<"3", "m">> :> <<"e", "v", "e", "r", "y", " ", "T", "H", "R", "E", "E", " ", "m", "o", "n", "t", "h", "s">> @@
    <<"6", "m">> :> <<"e", "v", "e", "r", "y", " ", "S", "I", "X", " ", "m", "o", "n", "t", "h", "s">> @@
    <<"1", "y">> :> <<"Y", "E", "A", "R", "L", "Y">> @@
    <<"a", "m">> :> <<"A", "F", "T", "E", "R", " ", "m", "e", "a", "l", "s">> @@
    <<"o", "d", "0", "7">> :> <<"O", "N", "C", "E", " ", "a", " ", "d", "a", "y", " ", "a", "t", " ", "7", "a", "m">> @@
    <<"o", "d", "0", "8">> :> <<"O", "N", "C", "E", " ", "a", " ", "d", "a", "y", " ", "a", "t", " ", "8", "a", "m">> @@
    <<"o", "d", "1", "2">> :> <<"O", "N", "C", "E", " ", "a", " ", "d", "a", "y", " ", "a", "t", " ", "1", "2", "p", "m">> @@
    <<"o", "d", "1", "6">> :> <<"O", "N", "C", "E", " ", "a", " ", "d", "a", "y", " ", "a", "t", " ", "4", "p", "m">> @@
    <<"o", "d", "2", "0">> :> <<"O", "N", "C", "E", " ", "a", " ", "d", "a", "y", " ", "a", "t", " ", "8", "p", "m">> @@
    <<"o", "d", "2", "2">> :> <<"O", "N", "C", "E", " ", "a", " ", "d", "a", "y", " ", "a", "t", " ", "1", "0", "p", "m">> @@
    <<"p", "m">> :> <<"i", "n", " ", "t", "h", "e", " ", "E", "V", "E", "N", "I", "N", "G">> @@
    <<"d", "i", "n", "n", "e", "r", "t", "i", "m", "e">> :> <<"a", "t", " ", "D", "I", "N", "N", "E", "R", " ", "t", "i", "m", "e">> @@
    <<"l", "u", "n", "c", "h", "t", "i", "m", "e">> :> <<"a", "t", " ", "L", "U", "N", "C", "H", " ", "t", "i", "m", "e">> @@
    <<"b", "r", "e", "a", "k", "f", "a", "s", "t">> :> <<"w", "i", "t", "h", " ", "B", "R", "E", "A", "K", "F", "A", "S", "T">> @@
    <<"d", "i", "n", "n", "e", "r">> :> <<"w", "i", "t", "h", " ", "D", "I", "N", "N", "E", "R">> @@
    <<"b", "m">> :> <<"B", "E", "F", "O", "R", "E", " ", "m", "e", "a", "l", "s">> @@
    <<"w", "m">> :> <<"W", "I", "T", "H", " ", "m", "e", "a", "l", "s">> @@
    <<"p", "o">> :> <<"b", "y", " ", "m", "o", "u", "t", "h">> @@
    <<"s", "l">> :> <<"u", "n", "d", "e", "r", " ", "t", "h", "e", " ", "t", "o", "n", "g", "u", "e">> @@
    <<"b", "u", "c">> :> <<"p", "l", "a", "c", "e", "d", " ", "b", "e", "t", "w", "e", "e", "n", " ", "t", "h", "e", " ", "g", "u", "m", " ", "a", "n", "d", " ", "c", "h", "e", "e", "k">> @@
    <<"p", "r">> :> <<"r", "e", "c", "t", "a", "l", "l", "y">> @@
    <<"p", "v">> :> <<"v", "a", "g", "i", "n", "a", "l", "l", "y">> @@
    <<"s", "c">> :> <<"s", "u", "b", "c", "u", "t", "a", "n", "e", "o", "u", "s", "l", "y">> @@
    <<"i", "m">> :> <<"i", "n", "t", "r", "a", "m", "u", "s", "c", "u", "l", "a", "r", "l", "y">> @@
    <<"i", "v">> :> <<"i", "n", "t", "r", "a", "v", "e", "n", "o", "u", "s", "l", "y">> @@
    <<"i", "n", "h">> :> <<"b", "y", " ", "i", "n", "h", "a", "l", "a", "t", "i", "o", "n">> @@
    <<"n", "e", "b">> :> <<"v", "i", "a", " ", "n", "e", "b", "u", "l", "i", "s", "e", "r">> @@
    <<"t", "o", "p">> :> <<"a", "p", "p", "l", "i", "e", "d", " ", "t", "o", "p", "i", "c", "a", "l", "l", "y">> @@
    <<"t", "d">> :> <<"a", "p", "p", "l", "i", "e", "d", " ", "t", "o", " ", "t", "h", "e", " ", "s", "k", "i", "n">> @@
    <<"o", "c">> :> <<"i", "n", "t", "o", " ", "t", "h", "e", " ", "e", "y", "e", "(", "s", ")">> @@
    <<"a", "u">> :> <<"i", "n", "t", "o", " ", "t", "h", "e", " ", "e", "a", "r", "(", "s", ")">> @@
    <<"n", "a", "s">> :> <<"i", "n", "t", "o", " ", "t", "h", "e", " ", "n", "o", "s", "e">> @@
    <<"l", "e">> :> <<"i", "n", "t", "o", " ", "t", "h", "e", " ", "L", "E", "F", "T", " ", "e", "y", "e">> @@
    <<"r", "e">> :> <<"i", "n", "t", "o", " ", "t", "h", "e", " ", "R", "I", "G", "H", "T", " ", "e", "y", "e">> @@
    <<"b", "e">> :> <<"i", "n", "t", "o", " ", "B", "O", "T", "H", " ", "e", "y", "e", "s">> @@
    <<"l", "a">> :> <<"i", "n", "t", "o", " ", "t", "h", "e", " ", "L", "E", "F", "T", " ", "e", "a", "r">> @@
    <<"r", "a">> :> <<"i", "n", "t", "o", " ", "t", "h", "e", " ", "R", "I", "G", "H", "T", " ", "e", "a", "r">> @@
    <<"b", "a">> :> <<"i", "n", "t", "o", " ", "B", "O", "T", "H", " ", "e", "a", "r", "s">> @@
    <<"w", "f">> :> <<"w", "i", "t", "h", " ", "f", "o", "o", "d">> @@
    <<"b", "f">> :> <<"b", "e", "f", "o", "r", "e", " ", "f", "o", "o", "d">> @@
    <<"a", "f">> :> <<"a", "f", "t", "e", "r", " ", "f", "o", "o", "d">> @@
    <<"d", "i", "s", "p">> :> <<"d", "i", "s", "p", "e", "r", "s", "e", " ", "i", "n", " ", "w", "a", "t", "e", "r">> @@
    <<"d", "n", "c">> :> <<"n", "o", "t", " ", "t", "o", " ", "b", "e", " ", "c", "r", "u", "s", "h", "e", "d">> @@
    <<"s", "h", "a", "k", "e">> :> <<"s", "h", "a", "k", "e", " ", "w", "e", "l", "l", " ", "b", "e", "f", "o", "r", "e", " ", "u", "s", "e">> @@
    <<"r", "i", "n", "s", "e">> :> <<"r", "i", "n", "s", "e", " ", "m", "o", "u", "t", "h", " ", "a", "f", "t", "e", "r", " ", "u", "s", "e">> @@
    <<"n", "s", "w", "a", "l", "l", "o", "w">> :> <<"d", "o", " ", "n", "o", "t", " ", "s", "w", "a", "l", "l", "o", "w">> @@
    <<"c", "+", "d">> :> <<"t", "a", "b", "l", "e", "t", " ", "m", "a", "y", " ", "b", "e", " ", "c", "r", "u", "s", "h", "e", "d", " ", "a", "n", "d", " ", "d", "i", "s", "p", "e", "r", "s", "e", "d", " ", "i", "n", " ", "w", "a", "t", "e", "r">> @@
    <<"c", "r", "u", "s", "h">> :> <<"t", "a", "b", "l", "e", "t", " ", "m", "a", "y", " ", "b", "e", " ", "c", "r", "u", "s", "h", "e", "d">> @@
    <<"o", "p", "e", "n">> :> <<"c", "a", "p", "s", "u", "l", "e", " ", "m", "a", "y", " ", "b", "e", " ", "o", "p", "e", "n", "e", "d", " ", "a", "n", "d", " ", "t", "h", "e", " ", "c", "o", "n", "t", "e", "n", "t", "s", " ", "d", "i", "s", "p", "e", "r", "s", "e", "d", " ", "i", "n", " ", "w", "a", "t", "e", "r">> @@
    <<"w", "h", "o", "l", "e">> :> <<"s", "w", "a", "l", "l", "o", "w", " ", "w", "h", "o", "l", "e", ",", " ", "d", "o", " ", "n", "o", "t", " ", "c", "h", "e", "w", " ", "o", "r", " ", "c", "r", "u", "s", "h">> @@
    <<"p", "r", "o", "t", "e", "c", "t">> :> <<"p", "r", "o", "t", "e", "c", "t", " ", "f", "r", "o", "m", " ", "l", "i", "g", "h", "t">> @@
    <<"f", "r", "i", "d", "g", "e">> :> <<"s", "t", "o", "r", "e", " ", "i", "n", " ", "a", " ", "r", "e", "f", "r", "i", "g", "e", "r", "a", "t", "o", "r">> @@
    <<"d", "i", "s", "c", "a", "r", "d">> :> <<"d", "i", "s", "c", "a", "r", "d", " ", "a", "f", "t", "e", "r", " ", "2", "8", " ", "d", "a", "y", "s", " ", "o", "f", " ", "o", "p", "e", "n", "i", "n", "g">> @@
    <<"u", "t", "d">> :> <<"a", "s", " ", "d", "i", "r", "e", "c", "t", "e", "d">> @@
    <<"m", "d", "u">> :> <<"a", "s", " ", "d", "i", "r", "e", "c", "t", "e", "d">> @@
    <<"a", "s", "d">> :> <<"a", "s", " ", "d", "i", "r", "e", "c", "t", "e", "d">> @@
    <<"1", "/", "7">> :> <<"f", "o", "r", " ", "O", "N", "E", " ", "d", "a", "y">> @@
    <<"2", "/", "7">> :> <<"f", "o", "r", " ", "T", "W", "O", " ", "d", "a", "y", "s">> @@
    <<"3", "/", "7">> :> <<"f", "o", "r", " ", "T", "H", "R", "E", "E", " ", "d", "a", "y", "s">> @@
    <<"4", "/", "7">> :> <<"f", "o", "r", " ", "F", "O", "U", "R", " ", "d", "a", "y", "s">> @@
    <<"5", "/", "7">> :> <<"f", "o", "r", " ", "F", "I", "V", "E", " ", "d", "a", "y", "s">> @@
    <<"6", "/", "7">> :> <<"f", "o", "r", " ", "S", "I", "X", " ", "d", "a", "y", "s">> @@
    <<"7", "/", "7">> :> <<"f", "o", "r", " ", "S", "E", "V", "E", "N", " ", "d", "a", "y", "s">> @@
    <<"8", "/", "7">> :> <<"f", "o", "r", " ", "E", "I", "G", "H", "T", " ", "d", "a", "y", "s">> @@
    <<"9", "/", "7">> :> <<"f", "o", "r", " ", "N", "I", "N", "E", " ", "d", "a", "y", "s">> @@
    <<"1", "0", "/", "7">> :> <<"f", "o", "r", " ", "T", "E", "N", " ", "d", "a", "y", "s">> @@
    <<"1", "1", "/", "7">> :> <<"f", "o", "r", " ", "E", "L", "E", "V", "E", "N", " ", "d", "a", "y", "s">> @@
    <<"1", "2", "/", "7">> :> <<"f", "o", "r", " ", "T", "W", "E", "L", "V", "E", " ", "d", "a", "y", "s">> @@
    <<"1", "3", "/", "7">> :> <<"f", "o", "r", " ", "T", "H", "I", "R", "T", "E", "E", "N", " ", "d", "a", "y", "s">> @@
    <<"1", "4", "/", "7">> :> <<"f", "o", "r", " ", "F", "O", "U", "R", "T", "E", "E", "N", " ", "d", "a", "y", "s">> @@
    <<"1", "/", "5", "2">> :> <<"f", "o", "r", " ", "O", "N", "E", " ", "w", "e", "e", "k">> @@
    <<"2", "/", "5", "2">> :> <<"f", "o", "r", " ", "T", "W", "O", " ", "w", "e", "e", "k", "s">> @@
    <<"4", "/", "5", "2">> :> <<"f", "o", "r", " ", "F", "O", "U", "R", " ", "w", "e", "e", "k", "s">> @@
    <<"1", "/", "1", "2">> :> <<"f", "o", "r", " ", "O", "N", "E", " ", "m", "o", "n", "t", "h">> @@
    <<"2", "/", "1", "2">> :> <<"f", "o", "r", " ", "T", "W", "O", " ", "m", "o", "n", "t", "h", "s">> @@
    <<"3", "/", "1", "2">> :> <<"f", "o", "r", " ", "T", "H", "R", "E", "E", " ", "m", "o", "n", "t", "h", "s">> @@
    <<"6", "/", "1", "2">> :> <<"f", "o", "r", " ", "S", "I", "X", " ", "m", "o", "n", "t", "h", "s">>

\* the words array of numberToWords
words ==
    <<
       <<"Z", "E", "R", "O">>,
       <<"O", "N", "E">>,
       <<"T", "W", "O">>,
       <<"T", "H", "R", "E", "E">>,
       <<"F", "O", "U", "R">>,
       <<"F", "I", "V", "E">>,
       <<"S", "I", "X">>,
       <<"S", "E", "V", "E", "N">>,
       <<"E", "I", "G", "H", "T">>,
       <<"N", "I", "N", "E">>,
       <<"T", "E", "N">>,
       <<"E", "L", "E", "V", "E", "N">>,
       <<"T", "W", "E", "L", "V", "E">>,
       <<"T", "H", "I", "R", "T", "E", "E", "N">>,
       <<"F", "O", "U", "R", "T", "E", "E", "N">>,
       <<"F", "I", "F", "T", "E", "E", "N">>,
       <<"S", "I", "X", "T", "E", "E", "N">>,
       <<"S", "E", "V", "E", "N", "T", "E", "E", "N">>,
       <<"E", "I", "G", "H", "T", "E", "E", "N">>,
       <<"N", "I", "N", "E", "T", "E", "E", "N">>,
       <<"T", "W", "E", "N", "T", "Y">> >>

\* the text a template literal gives for a value that is undefined
UNDEFINED == <<"u", "n", "d", "e", "f", "i", "n", "e", "d">>

\* [0-9]+\.?[0-9]* over the whole of s
IsNumber(s) ==
    LET p == SkipWhile(s, 1, Digit)
    IN  /\ p > 1
        /\ \/ p > Len(s)
           \/ s[p] = "." /\ SkipWhile(s, p + 1, Digit) > Len(s)

\* \d+ over the whole of s
IsDigits(s) == s # <<>> /\ SkipWhile(s, 1, Digit) > Len(s)

\* the value of a run of digits
RECURSIVE NatOf(_)
NatOf(digits) ==
    IF digits = <<>> THEN 0
    ELSE 10 * NatOf(SubSeq(digits, 1, Len(digits) - 1)) + (CharCode[digits[Len(digits)]] - 48)

\* parseFloat of a string of the shape IsNumber: the whole part, and the fraction
\* digits without their trailing zeros
parseFloat(s) ==
    LET p == SkipWhile(s, 1, Digit)
        fraction == SubSeq(s, p + 1, Len(s))
    IN  [whole |-> NatOf(SubSeq(s, 1, p - 1)),
         frac |-> SubSeq(fraction, 1, SkipBack(fraction, Len(fraction), {"0"}))]

\* parseInt(s, 10) of a run of digits
parseInt(s) == [whole |-> NatOf(s), frac |-> <<>>]

DigitChar == <<"0", "1", "2", "3", "4", "5", "6", "7", "8", "9">>

\* the decimal numeral of a natural number
RECURSIVE Numeral(_)
Numeral(n) ==
    IF n < 10 THEN <<DigitChar[n + 1]>>
    ELSE Numeral(n \div 10) \o <<DigitChar[(n % 10) + 1]>>

\* Number.prototype.toString
NumberToString(num) ==
    Numeral(num.whole) \o (IF num.frac = <<>> THEN <<>> ELSE <<".">> \o num.frac)

\* a faulty variant: the word table stops before twenty
numberToWords_NumeralFromTwenty(num) ==
    IF num.whole >= 20 THEN NumberToString(num)
    ELSE IF num.frac = <<>> THEN words[num.whole + 1]
    ELSE UNDEFINED

\* numberToWords: words[num] for 0 <= num <= 20, which is undefined when num is
\* not a whole number; num.toString() above 20
numberToWords(num) ==
    IF num.whole > 20 \/ (num.whole = 20 /\ num.frac # <<>>) THEN NumberToString(num)
    ELSE IF num.frac = <<>> THEN words[num.whole + 1]
    ELSE UNDEFINED

formatDosageRange(minQuantity, maxQuantity, unit, verb) ==
    verb \o <<" ">> \o numberToWords(minQuantity) \o <<" ", "t", "o", " ">> \o numberToWords(maxQuantity)
         \o <<" ">> \o unit \o <<"s">>

\* a faulty variant: the unit is plural for every whole quantity
formatDosageQuantity_AlwaysPlural(quantity, unit, verb) ==
    IF quantity.whole = 0 /\ quantity.frac = <<"5">>
    THEN verb \o <<" ", "H", "A", "L", "F", " ", "a", " ">> \o unit
    ELSE IF quantity.frac = <<>>
    THEN verb \o <<" ">> \o numberToWords(quantity) \o <<" ">> \o unit \o <<"s">>
    ELSE IF quantity.frac = <<"5">>
    THEN verb \o <<" ">> \o numberToWords([whole |-> quantity.whole, frac |-> <<>>])
              \o <<" ", "A", "N", "D", " ", "A", " ", "H", "A", "L", "F", " ">> \o unit \o <<"s">>
    ELSE verb \o <<" ">> \o NumberToString(quantity) \o <<" ">> \o unit \o <<"s">>

formatDosageQuantity(quantity, unit, verb) ==
    IF quantity.whole = 0 /\ quantity.frac = <<"5">>
    THEN verb \o <<" ", "H", "A", "L", "F", " ", "a", " ">> \o unit
    ELSE IF quantity.frac = <<>>
    THEN verb \o <<" ">> \o numberToWords(quantity) \o <<" ">>
              \o (IF quantity.whole = 1 THEN unit ELSE unit \o <<"s">>)
    ELSE IF quantity.frac = <<"5">>
    THEN verb \o <<" ">> \o numberToWords([whole |-> quantity.whole, frac |-> <<>>])
              \o <<" ", "A", "N", "D", " ", "A", " ", "H", "A", "L", "F", " ">> \o unit \o <<"s">>
    ELSE verb \o <<" ">> \o NumberToString(quantity) \o <<" ">> \o unit \o <<"s">>

\* the unit letters of the generated dosage patterns, in the order they are tried
DosageUnits ==
    << [letter |-> "t", unit |-> <<"t", "a", "b", "l", "e", "t">>, verb |-> <<"T", "a", "k", "e">>],
       [letter |-> "c", unit |-> <<"c", "a", "p", "s", "u", "l", "e">>, verb |-> <<"T", "a", "k", "e">>],
       [letter |-> "p", unit |-> <<"p", "u", "f", "f">>, verb |-> <<"I", "n", "h", "a", "l", "e">>],
       [letter |-> "d", unit |-> <<"d", "r", "o", "p">>, verb |-> <<"A", "p", "p", "l", "y">>] >>

\* position of the first ch in s at or after i (Len(s)+1 if none)
RECURSIVE IndexOf(_, _, _)
IndexOf(s, i, ch) ==
    IF i > Len(s) \/ s[i] = ch THEN i ELSE IndexOf(s, i + 1, ch)

EndsWith(s, suffix) ==
    Len(s) >= Len(suffix) /\ SubSeq(s, Len(s) - Len(suffix) + 1, Len(s)) = suffix

\* /^([0-9]+\.?[0-9]*)-([0-9]+\.?[0-9]*)<suffix>$/
IsRange(code, suffix) ==
    LET h == IndexOf(code, 1, "-")
    IN  /\ EndsWith(code, suffix)
        /\ h + Len(suffix) <= Len(code)
        /\ IsNumber(SubSeq(code, 1, h - 1))
        /\ IsNumber(SubSeq(code, h + 1, Len(code) - Len(suffix)))

RangeMin(code) == parseFloat(SubSeq(code, 1, IndexOf(code, 1, "-") - 1))

RangeMax(code, suffix) ==
    parseFloat(SubSeq(code, IndexOf(code, 1, "-") + 1, Len(code) - Len(suffix)))

\* /^([0-9]+\.?[0-9]*)<suffix>$/
IsQuantity(code, suffix) ==
    EndsWith(code, suffix) /\ IsNumber(SubSeq(code, 1, Len(code) - Len(suffix)))

Quantity(code, suffix) == parseFloat(SubSeq(code, 1, Len(code) - Len(suffix)))

\* /^(\d+)\/<period>$/
IsDuration(code, period) ==
    EndsWith(code, <<"/">> \o period) /\ IsDigits(SubSeq(code, 1, Len(code) - Len(period) - 1))

\* for ${numberToWords(n)} ${n === 1 ? noun : noun + 's'}
DurationText(code, period, noun) ==
    LET n == parseInt(SubSeq(code, 1, Len(code) - Len(period) - 1))
    IN  <<"f", "o", "r", " ">> \o numberToWords(n) \o <<" ">> \o (IF n.whole = 1 THEN noun ELSE noun \o <<"s">>)

\* the generated texts of getFullText, lines 187-300: ranges, then quantities, then
\* durations; NULL when no pattern matches
GeneratedText(code) ==
    IF \E u \in 1..4 : IsRange(code, <<DosageUnits[u].letter>>)
    THEN LET u == CHOOSE u \in 1..4 : IsRange(code, <<DosageUnits[u].letter>>)
         IN  formatDosageRange(RangeMin(code), RangeMax(code, <<DosageUnits[u].letter>>),
                               DosageUnits[u].unit, DosageUnits[u].verb)
    ELSE IF IsRange(code, <<"m", "l">>)
    THEN <<"T", "a", "k", "e">> \o <<" ">> \o NumberToString(RangeMin(code)) \o <<"-">>
               \o NumberToString(RangeMax(code, <<"m", "l">>)) \o <<"m", "l">>
    ELSE IF \E u \in 1..4 : IsQuantity(code, <<DosageUnits[u].letter>>)
    THEN LET u == CHOOSE u \in 1..4 : IsQuantity(code, <<DosageUnits[u].letter>>)
         IN  formatDosageQuantity(Quantity(code, <<DosageUnits[u].letter>>),
                                  DosageUnits[u].unit, DosageUnits[u].verb)
    ELSE IF IsQuantity(code, <<"m", "l">>)
    THEN <<"T", "a", "k", "e">> \o <<" ">> \o NumberToString(Quantity(code, <<"m", "l">>)) \o <<"m", "l">>
    ELSE IF IsDuration(code, <<"7">>) THEN DurationText(code, <<"7">>, <<"d", "a", "y">>)
    ELSE IF IsDuration(code, <<"5", "2">>) THEN DurationText(code, <<"5", "2">>, <<"w", "e", "e", "k">>)
    ELSE IF IsDuration(code, <<"1", "2">>) THEN DurationText(code, <<"1", "2">>, <<"m", "o", "n", "t", "h">>)
    ELSE NULL

\* lines 183-300 on the normalized code
TextOfCode(normalizedCode) ==
    IF normalizedCode \in DOMAIN lowercaseMappings
    THEN lowercaseMappings[normalizedCode]
    ELSE GeneratedText(normalizedCode)

\* ShorthandCodes.getFullText: the text of a code, NULL for null
getFullText(code) == IF Falsy(code) THEN NULL ELSE TextOfCode(LowerTrim(code))

------------------------------------------------------------------------------
(* Shorthand expansion (label-generator.js)                                *)

Alnum == Letter \cup Digit

Punctuation == {",", ";"}

\* the suffixes Math.random().toString(36).substr(2, 5) can give: up to five
\* characters of 0-9a-z, none at all when the random number is 0
SuffixPool == { <<>>, <<"a">>, <<"b">> }

MaxDraws == 2

\* the suffix of the k-th placeholder made in one call
Draw(draws, k) == IF k <= Len(draws) THEN draws[k] ELSE draws[Len(draws)]

preservePatterns ==
    << [tail |-> <<"/", "7">>, placeholder |-> <<"_", "_", "D", "A", "Y", "S", "_", "_">>],
       [tail |-> <<"/", "5", "2">>, placeholder |-> <<"_", "_", "W", "E", "E", "K", "S", "_", "_">>],
       [tail |-> <<"/", "1", "2">>, placeholder |-> <<"_", "_", "M", "O", "N", "T", "H", "S", "_", "_">>],
       [tail |-> <<"-">>, placeholder |-> <<"_", "_", "R", "A", "N", "G", "E", "_", "_">>] >>

\* end (exclusive) of the match of /(\d+)<tail>/ that starts at i, 0 if none
TailMatch(s, i, tail) ==
    LET p == SkipWhile(s, i, Digit)
    IN  IF p > i /\ p + Len(tail) - 1 <= Len(s) /\ SubSeq(s, p, p + Len(tail) - 1) = tail
        THEN p + Len(tail) ELSE 0

\* end (exclusive) of the match of /(\d+)-(\d+)(t|c|p|d|ml)/ that starts at i, 0 if none
RangeMatch(s, i) ==
    LET p == TailMatch(s, i, <<"-">>)
        q == SkipWhile(s, p, Digit)
    IN  IF p = 0 \/ q = p \/ q > Len(s) THEN 0
        ELSE IF s[q] \in {"t", "c", "p", "d"} THEN q + 1
        ELSE IF q + 1 <= Len(s) /\ s[q] = "m" /\ s[q + 1] = "l" THEN q + 2
        ELSE 0

PatternMatch(index, s, i) ==
    IF index = 4 THEN RangeMatch(s, i) ELSE TailMatch(s, i, preservePatterns[index].tail)

\* `${placeholder}_${index}_${suffix}`, the index counted from 0
PlaceholderKey(index, suffix) ==
    preservePatterns[index].placeholder \o <<"_">> \o Numeral(index - 1) \o <<"_">> \o suffix

\* Map.set on a Map kept as the sequence of its entries in insertion order
PreservedSet(map, key, value) ==
    IF \E k \in 1..Len(map) : map[k].key = key
    THEN [k \in 1..Len(map) |-> IF map[k].key = key THEN [key |-> key, value |-> value]
                                 ELSE map[k]]
    ELSE Append(map, [key |-> key, value |-> value])

\* processedInput.replace(pattern, callback) for one pattern, from position i of s:
\* st.out is the text produced so far, st.map the preserved values, st.used the
\* number of placeholders made
RECURSIVE PreserveFrom(_, _, _, _, _)
PreserveFrom(s, i, index, draws, st) ==
    IF i > Len(s) THEN st
    ELSE LET e == PatternMatch(index, s, i)
             key == PlaceholderKey(index, Draw(draws, st.used + 1))
         IN  IF e = 0
             THEN PreserveFrom(s, i + 1, index, draws, [st EXCEPT !.out = @ \o <<s[i]>>])
             ELSE PreserveFrom(s, e, index, draws,
                               [out |-> st.out \o key,
                                map |-> PreservedSet(st.map, key, SubSeq(s, i, e - 1)),
                                used |-> st.used + 1])

\* preservePatterns.forEach(...), lines 75-81
RECURSIVE PreserveAll(_, _, _)
PreserveAll(st, index, draws) ==
    IF index > Len(preservePatterns) THEN st
    ELSE PreserveAll(PreserveFrom(st.out, 1, index, draws, [st EXCEPT !.out = <<>>]),
                     index + 1, draws)

Preserved(input, draws) ==
    PreserveAll([out |-> input, map |-> <<>>, used |-> 0], 1, draws)

\* s.replace(/([a-z0-9])-((?![0-9])[a-z0-9])/gi, '$1 $2') from position i
RECURSIVE ReplaceHyphensFrom(_, _)
ReplaceHyphensFrom(s, i) ==
    IF i > Len(s) THEN <<>>
    ELSE IF i + 2 <= Len(s) /\ s[i] \in Alnum /\ s[i + 1] = "-" /\ s[i + 2] \in Letter
    THEN <<s[i], " ", s[i + 2]>> \o ReplaceHyphensFrom(s, i + 3)
    ELSE <<s[i]>> \o ReplaceHyphensFrom(s, i + 1)

ReplaceHyphens(s) == ReplaceHyphensFrom(s, 1)

\* s.replace(key, value) with a string key: the first occurrence only
ReplaceFirst(s, key, value) ==
    IF includes(s, key)
    THEN LET i == CHOOSE i \in 1..Len(s) :
                      /\ i + Len(key) - 1 <= Len(s)
                      /\ SubSeq(s, i, i + Len(key) - 1) = key
                      /\ \A h \in 1..(i - 1) : SubSeq(s, h, h + Len(key) - 1) # key
         IN  SubSeq(s, 1, i - 1) \o value \o SubSeq(s, i + Len(key), Len(s))
    ELSE s

\* preservedValues.forEach(...), lines 88-90
RECURSIVE RestoreFrom(_, _, _)
RestoreFrom(s, map, k) ==
    IF k > Len(map) THEN s
    ELSE RestoreFrom(ReplaceFirst(s, map[k].key, map[k].value), map, k + 1)

\* lines 83-90 on the outcome of the preservation
RestoreAll(st) == RestoreFrom(ReplaceHyphens(st.out), st.map, 1)

\* the input after lines 63-90
Preprocessed(input, draws) == RestoreAll(Preserved(input, draws))

\* position of the first white space in s at or after i (Len(s)+1 if none)
RECURSIVE NextWhiteSpace(_, _)
NextWhiteSpace(s, i) ==
    IF i <= Len(s) /\ s[i] \notin WhiteSpace THEN NextWhiteSpace(s, i + 1) ELSE i

\* component.split(/\s+/) of a trimmed, non-empty component, from position i
RECURSIVE SplitPartsFrom(_, _)
SplitPartsFrom(s, i) ==
    IF i > Len(s) THEN <<>>
    ELSE LET e == NextWhiteSpace(s, i)
         IN  <<SubSeq(s, i, e - 1)>> \o SplitPartsFrom(s, SkipWhile(s, e, WhiteSpace))

\* a || b: the first value unless it is null, undefined or ''
OrElse(a, b) == IF Falsy(a) THEN b ELSE a

\* the parts after the second: each one translated, or kept as it is
RECURSIVE FurtherParts(_, _)
FurtherParts(parts, i) ==
    IF i > Len(parts) THEN <<>>
    ELSE <<" ">> \o OrElse(getFullText(parts[i]), parts[i]) \o FurtherParts(parts, i + 1)

\* result after the first two parts, lines 147-159
FirstAndSecond(firstPart, secondPart) ==
    IF Falsy(secondPart) THEN OrElse(firstPart, <<>>)
    ELSE IF Falsy(firstPart) THEN secondPart
    ELSE firstPart \o <<" ">> \o secondPart

\* lines 145-176 for the parts of component
TranslateParts(component, parts) ==
    IF Len(parts) >= 2
    THEN OrElse(FirstAndSecond(getFullText(parts[1]), getFullText(parts[2]))
                    \o FurtherParts(parts, 3),
                component)
    ELSE component

_translateSingleComponent(component) ==
    OrElse(getFullText(component), TranslateParts(component, SplitPartsFrom(component, 1)))

\* s.split(/([,;])/) from position i, cur the piece being read
RECURSIVE SplitPunctuationFrom(_, _, _)
SplitPunctuationFrom(s, i, cur) ==
    IF i > Len(s) THEN <<cur>>
    ELSE IF s[i] \in Punctuation
    THEN <<cur, <<s[i]>>>> \o SplitPunctuationFrom(s, i + 1, <<>>)
    ELSE SplitPunctuationFrom(s, i + 1, cur \o <<s[i]>>)

NotBlank(s) == trim(s) # <<>>

Segments(s) == SelectSeq(SplitPunctuationFrom(s, 1, <<>>), NotBlank)

\* lines 112-121: the text built so far with one more translated segment
AppendSegment(result, previous, translated) ==
    IF previous \in {<<",">>, <<";">>} THEN result \o previous \o <<" ">> \o translated
    ELSE IF result # <<>> THEN result \o <<" ">> \o translated
    ELSE translated

\* the segment before segment i, nothing before the first
PreviousSegment(segments, i) == IF i > 1 THEN segments[i - 1] ELSE <<>>

\* the loop of lines 100-122 from segment i, result the text built so far
RECURSIVE TranslateSegmentsFrom(_, _, _)
TranslateSegmentsFrom(segments, i, result) ==
    IF i > Len(segments) THEN result
    ELSE IF trim(segments[i]) \in {<<",">>, <<";">>}
    THEN TranslateSegmentsFrom(segments, i + 1, result)
    ELSE TranslateSegmentsFrom(segments, i + 1,
             AppendSegment(result, PreviousSegment(segments, i),
                           _translateSingleComponent(trim(segments[i]))))

\* lines 92-128 on the trimmed input and its pre-processed form
TranslateProcessed(input, processedInput) ==
    IF \E i \in 1..Len(processedInput) : processedInput[i] \in Punctuation
    THEN OrElse(TranslateSegmentsFrom(Segments(processedInput), 1, <<>>), input)
    ELSE _translateSingleComponent(processedInput)

\* LabelGenerator.translateShorthand, the random suffixes it draws given by draws
translateShorthand(shorthand, draws) ==
    IF Falsy(shorthand) \/ trim(shorthand) = <<>> THEN <<>>
    ELSE TranslateProcessed(trim(shorthand), Preprocessed(trim(shorthand), draws))

------------------------------------------------------------------------------
(* The expander on its own: every input, every draw of suffixes            *)

MaxQuantity == 22

DosageLetters == {"t", "c", "p", "d"}

\* <N><u> and <N>.5<u>, N written with or without a leading zero
QuantityToken(lead, n, half, u) ==
    lead \o Numeral(n) \o (IF half THEN <<".", "5">> ELSE <<>>) \o <<u>>

QuantityTokens ==
    { QuantityToken(lead, n, half, u) :
        lead \in {<<>>, <<"0">>}, n \in 0..MaxQuantity, half \in BOOLEAN, u \in DosageLetters }

\* range endpoints as they are written, with the wording of each
RangeEnds ==
    { [text |-> <<"1">>, wording |-> <<"O", "N", "E">>],
      [text |-> <<"2">>, wording |-> <<"T", "W", "O">>],
      [text |-> <<"0", ".", "5">>, wording |-> <<"0", ".", "5">>],
      [text |-> <<"2", "1">>, wording |-> <<"2", "1">>] }

RangeToken(n, m, u) == n.text \o <<"-">> \o m.text \o <<u>>

RangeTokens == { RangeToken(n, m, u) : n \in RangeEnds, m \in RangeEnds, u \in DosageLetters }

PairTokens == { <<"b", "d">>, <<"1", "t">>, <<"x">>, <<"y">>, <<"1", "/", "7">>, <<"2", "/", "7">> }

PairSeparators == { <<" ">>, <<"-">>, <<",">>, <<",", " ">> }

PairInputs == { a \o sep \o b : a \in PairTokens, b \in PairTokens, sep \in PairSeparators }

OtherInputs ==
    { NULL, <<>>, <<" ">>, <<"x", "y", "z", "1", "2", "3">>, <<"x", " ", "y", " ", "z">>, <<"x", "-", "y", "-", "z">>, <<" ", "B", "D", " ">>, <<"1", "t", " ", "b", "d", " ", "1", "/", "7">>, <<"1", "t", ",", "b", "d", ";", "1", "/", "7">>,
      <<"1", "-", "2", "m", "l">>, <<"5", "m", "l">>, <<"3", "/", "5", "2">>, <<"6", "/", "1", "2">>, <<"1", "-", "2", "T">>, <<"b", "d", ",">> }

\* the tokens and texts above, and every key of the static table
ExpanderInputs ==
    QuantityTokens \cup RangeTokens \cup PairInputs \cup OtherInputs
        \cup DOMAIN lowercaseMappings

DrawSets == [1..MaxDraws -> SuffixPool]

InitExpander ==
    /\ medications = <<>>
    /\ medicationWarnings = <<>>
    /\ formulations = [loaded |-> FALSE, table |-> <<>>]
    /\ _medNameIndex = NoIndex
    /\ _aliasIndex = NoIndex
    /\ _warningIndex = NoIndex
    /\ _normCache = EmptyMap
    /\ pc = "pure"
    /\ \E input \in ExpanderInputs :
           call = [op |-> "pending", a |-> input, b |-> <<>>, result |-> <<>>]

ApplyExpander(op, draws, result) ==
    /\ call.op = "pending"
    /\ call' = [call EXCEPT !.op = op, !.b = draws, !.result = result]
    /\ UNCHANGED <<medications, formulations, medicationWarnings, _medNameIndex,
                   _aliasIndex, _warningIndex, _normCache, pc>>

ApplyGetFullText == ApplyExpander("getFullText", <<>>, getFullText(call.a))

ApplyTranslateShorthand ==
    \E draws \in DrawSets :
        ApplyExpander("translateShorthand", draws, translateShorthand(call.a, draws))

NextExpander ==
    \/ ApplyGetFullText
    \/ ApplyTranslateShorthand

SpecExpander == InitExpander /\ [][NextExpander]_vars

------------------------------------------------------------------------------
(* Claims about the expander                                               *)

Expanded == call.op = "translateShorthand"

\* the tokens made of letters and digits only
AlnumTokens == { t \in PairTokens : \A i \in 1..Len(t) : t[i] \in Alnum }

\* a protected numeric range: the text holds a match of the range pattern
ProtectedRange(s) == \E i \in 1..Len(s) : RangeMatch(s, i) # 0

\* C15: a hyphen joining two tokens of letters and digits behaves as a space, also
\* when the second token starts with a digit: expand(a-b) = expand(a b) unless a-b
\* is a protected numeric range
C15_HyphenActsAsSpace ==
    \A a \in AlnumTokens, b \in AlnumTokens :
        (Expanded /\ call.a = a \o <<"-">> \o b /\ ~ProtectedRange(call.a))
            => call.result = translateShorthand(a \o <<" ">> \o b, call.b)

\* the parts of an input: what white space, hyphens, commas and semicolons separate
InputParts(s) == SplitWords(ReplaceRuns(s, WhiteSpace \cup Punctuation \cup {"-"}))

\* no part of the input, and not the input as a whole, is a shorthand code
NoCode(s) ==
    /\ ~Falsy(s)
    /\ Falsy(getFullText(s))
    /\ \A i \in 1..Len(InputParts(s)) : Falsy(getFullText(InputParts(s)[i]))

\* C16: an input no part of which is a shorthand code comes back trimmed and
\* otherwise unchanged, character for character, whatever its number of parts
\* and whether or not it holds hyphens, commas or semicolons
C16_PassThrough ==
    (Expanded /\ NoCode(call.a)) => call.result = trim(call.a)

\* C17: the text expand returns does not depend on the suffixes drawn for the
\* placeholders: every other draw gives the text this call gave
C17_Deterministic ==
    Expanded => \A draws \in DrawSets : translateShorthand(call.a, draws) = call.result

EnglishWord ==
    << <<"O", "N", "E">>, <<"T", "W", "O">>, <<"T", "H", "R", "E", "E">>, <<"F", "O", "U", "R">>, <<"F", "I", "V", "E">>, <<"S", "I", "X">>, <<"S", "E", "V", "E", "N">>, <<"E", "I", "G", "H", "T">>, <<"N", "I", "N", "E">>,
       <<"T", "E", "N">>, <<"E", "L", "E", "V", "E", "N">>, <<"T", "W", "E", "L", "V", "E">>, <<"T", "H", "I", "R", "T", "E", "E", "N">>, <<"F", "O", "U", "R", "T", "E", "E", "N">>, <<"F", "I", "F", "T", "E", "E", "N">>, <<"S", "I", "X", "T", "E", "E", "N">>,
       <<"S", "E", "V", "E", "N", "T", "E", "E", "N">>, <<"E", "I", "G", "H", "T", "E", "E", "N">>, <<"N", "I", "N", "E", "T", "E", "E", "N">>, <<"T", "W", "E", "N", "T", "Y">> >>

WORD(n) == IF n \in 1..20 THEN EnglishWord[n] ELSE Numeral(n)

Verb(u) == IF u = "p" THEN <<"I", "n", "h", "a", "l", "e">> ELSE IF u = "d" THEN <<"A", "p", "p", "l", "y">> ELSE <<"T", "a", "k", "e">>

Noun(u) ==
    IF u = "t" THEN <<"t", "a", "b", "l", "e", "t">> ELSE IF u = "c" THEN <<"c", "a", "p", "s", "u", "l", "e">>
    ELSE IF u = "p" THEN <<"p", "u", "f", "f">> ELSE <<"d", "r", "o", "p">>

ClaimedQuantity(n, half, u) ==
    IF half /\ n = 0 THEN Verb(u) \o <<" ", "H", "A", "L", "F", " ", "a", " ">> \o Noun(u)
    ELSE IF half THEN Verb(u) \o <<" ">> \o WORD(n) \o <<" ", "A", "N", "D", " ", "A", " ", "H", "A", "L", "F", " ">> \o Noun(u) \o <<"s">>
    ELSE Verb(u) \o <<" ">> \o WORD(n) \o <<" ">> \o Noun(u) \o (IF n = 1 THEN <<>> ELSE <<"s">>)

\* C18: for a token <N><u>, u one of t, c, p, d, that has no static entry,
\* getFullText returns verb, the word of N (the numeral above 20) and the unit noun,
\* singular exactly when N = 1; for N.5 the word of N, AND A HALF and the plural
\* noun; for 0.5 HALF a and the singular noun
C18_GeneratedQuantities ==
    \A lead \in {<<>>, <<"0">>}, n \in 0..MaxQuantity, half \in BOOLEAN, u \in DosageLetters :
        ( /\ call.op = "getFullText"
          /\ call.a = QuantityToken(lead, n, half, u)
          /\ call.a \notin DOMAIN lowercaseMappings
          /\ (n >= 1 \/ half) )
            => call.result = ClaimedQuantity(n, half, u)

C18_Witness ==
    \/ call.op = "getFullText" /\ call.a = <<"2", "1", "t">> /\ call.result = <<"T", "a", "k", "e", " ", "2", "1", " ", "t", "a", "b", "l", "e", "t", "s">>
    \/ call.op = "getFullText" /\ call.a = <<"0", "1", "d">> /\ call.result = <<"A", "p", "p", "l", "y", " ", "O", "N", "E", " ", "d", "r", "o", "p">>
    \/ call.op = "getFullText" /\ call.a = <<"7", ".", "5", "p">>
           /\ call.result = <<"I", "n", "h", "a", "l", "e", " ", "S", "E", "V", "E", "N", " ", "A", "N", "D", " ", "A", " ", "H", "A", "L", "F", " ", "p", "u", "f", "f", "s">>

\* C19: for a range token <N>-<M><u> the range rule accepts, fractional ends
\* included, expand returns verb, the wording of N, "to", the wording of M and the
\* plural unit noun, each wording a number word or a numeral
C19_GeneratedRanges ==
    \A n \in RangeEnds, m \in RangeEnds, u \in DosageLetters :
        (Expanded /\ call.a = RangeToken(n, m, u))
            => call.result = Verb(u) \o <<" ">> \o n.wording \o <<" ", "t", "o", " ">> \o m.wording
                                     \o <<" ">> \o Noun(u) \o <<"s">>

------------------------------------------------------------------------------
(* Claims about start-up                                                   *)

IndexesBuilt == _medNameIndex.built /\ _aliasIndex.built /\ _warningIndex.built

\* C20: in every start-up, the load succeeding, the load failing or the index
\* construction failing part-way, the listeners are registered and a query is
\* served only after _buildIndexes has run to completion
C20_BuildBeforeQuery ==
    (pc = "listening" \/ Served) => IndexesBuilt

------------------------------------------------------------------------------
(* The indexes over colliding reference data, and one query after the build *)

MaxIndexMeds == 2

MaxIndexWarnings == 2

Name_b_dash_a == <<"b", "-", "a">>

Name_b_slash_a == <<"b", "/", "a">>

\* drug_aliases.json: records whose names and aliases collide on keys
IndexMedicationPool ==
    { [name |-> Name_ab, aliases |-> <<Name_x>>],
      [name |-> Name_b_slash_a, aliases |-> <<Name_x>>],
      [name |-> Name_x, aliases |-> <<Name_b_dash_a>>] }

\* drug names and formulations the query after the build is made with
IndexDrugInputs ==
    { Name_ab, Name_ba, Name_x, <<"A", "-", "B">>, Name_b_slash_a, Name_b_dash_a }

IndexFormInputs == { Form_t, Form_c }

\* init(), lines 35-75, on the colliding reference data
initColliding ==
    /\ pc = "start"
    /\ \E meds \in TablesOver(IndexMedicationPool, MaxIndexMeds),
          warns \in TablesOver(WarningPool, MaxIndexWarnings) :
           /\ medications' = meds
           /\ medicationWarnings' = warns
           /\ _buildIndexes(meds, warns)
    /\ formulations' = [loaded |-> TRUE, table |-> FormulationTable]
    /\ pc' = "listening"
    /\ UNCHANGED call

\* the first record among the probes, 0 if every probe misses
RECURSIVE FirstRecord(_)
FirstRecord(probes) ==
    IF probes = <<>> THEN 0
    ELSE IF Head(probes) # 0 THEN Head(probes)
    ELSE FirstRecord(Tail(probes))

\* lines 655-660: the record of the name by the three keys of each index
ProbedRecord(normalizedMed, canonicalMed, rawMed) ==
    FirstRecord(<<RecordAt(_medNameIndex, normalizedMed),
                  RecordAt(_medNameIndex, canonicalMed),
                  RecordAt(_medNameIndex, rawMed),
                  RecordAt(_aliasIndex, normalizedMed),
                  RecordAt(_aliasIndex, canonicalMed),
                  RecordAt(_aliasIndex, rawMed)>>)

\* lines 662-669: the record's name, else the normalized name
NameOfRecord(med, normalizedMed) ==
    IF med # 0 THEN LowerTrim(medications[med].name) ELSE normalizedMed

\* MedicationManager.standardizeMedicationName
standardizeMedicationName(medicationName) ==
    IF Falsy(medicationName) \/ _cachedNormalize(medicationName) = <<>> THEN <<>>
    ELSE NameOfRecord(ProbedRecord(_cachedNormalize(medicationName),
                                   _cachedCanonicalize(medicationName),
                                   LowerTrim(medicationName)),
                      _cachedNormalize(medicationName))

\* the one query: findWarningLabels
ResolveOnce ==
    /\ pc = "listening"
    /\ \E d \in IndexDrugInputs, f \in IndexFormInputs :
           /\ call' = [op |-> "findWarningLabels", d |-> d, f |-> f,
                       result |-> findWarningLabels(d, f)]
           /\ _normCache' = CacheAfterAll(_normCache, FindStrings(d, f))
    /\ pc' = "served"
    /\ UNCHANGED <<medications, formulations, medicationWarnings, _medNameIndex,
                   _aliasIndex, _warningIndex>>

\* the one query: standardizeMedicationName
StandardizeOnce ==
    /\ pc = "listening"
    /\ \E d \in IndexDrugInputs :
           /\ call' = [op |-> "standardizeMedicationName", d |-> d, f |-> <<>>,
                       result |-> Returned(standardizeMedicationName(d))]
           /\ _normCache' = CacheAfterAll(_normCache, <<d>>)
    /\ pc' = "served"
    /\ UNCHANGED <<medications, formulations, medicationWarnings, _medNameIndex,
                   _aliasIndex, _warningIndex>>

NextIndexes ==
    \/ initColliding
    \/ ResolveOnce
    \/ StandardizeOnce

SpecIndexes == Init /\ [][NextIndexes]_vars

------------------------------------------------------------------------------
(* Start-up followed by any sequence of the four queries                   *)

\* a faulty variant: the lowered aliases are written back into the category
AliasesAfterMap_InPlace(aliases) == [i \in 1..Len(aliases) |-> LowerTrim(aliases[i])]

\* aliases.map(alias => alias.toLowerCase().trim()) builds a new array: the
\* category's own alias list after the call
AliasesAfterMap(aliases) == aliases

\* this.formulations after the loop over the categories
FormulationsAfterClassify ==
    IF formulations.loaded
    THEN [formulations EXCEPT
              !.table = [c \in 1..Len(formulations.table) |->
                            [category |-> formulations.table[c].category,
                             aliases |-> AliasesAfterMap(formulations.table[c].aliases)]]]
    ELSE formulations

\* the names and formulations the queries are made with
QueryDrugInputs == { <<>>, Name_ba, <<"A", "-", "B">> }

QueryFormInputs == { <<>>, Form_t, <<"C", "p">> }

\* a caller asks for the warning labels of (d, f)
QueryWarningLabels ==
    /\ pc = "listening"
    /\ \E d \in QueryDrugInputs, f \in QueryFormInputs :
           /\ call' = [op |-> "findWarningLabels", d |-> d, f |-> f,
                       result |-> findWarningLabels(d, f)]
           /\ _normCache' = CacheAfterAll(_normCache, FindStrings(d, f))
    /\ formulations' = FormulationsAfterClassify
    /\ UNCHANGED <<medications, medicationWarnings, _medNameIndex, _aliasIndex,
                   _warningIndex, pc>>

\* a caller asks for the standard name of d
StandardizeMedicationName ==
    /\ pc = "listening"
    /\ \E d \in QueryDrugInputs :
           /\ call' = [op |-> "standardizeMedicationName", d |-> d, f |-> <<>>,
                       result |-> Returned(standardizeMedicationName(d))]
           /\ _normCache' = CacheAfterAll(_normCache, <<d>>)
    /\ UNCHANGED <<medications, formulations, medicationWarnings, _medNameIndex,
                   _aliasIndex, _warningIndex, pc>>

\* a caller asks for the category of f
StandardizeFormulation ==
    /\ pc = "listening"
    /\ \E f \in QueryFormInputs :
           call' = [op |-> "standardizeFormulation", d |-> <<>>, f |-> f,
                    result |-> standardizeFormulation(f)]
    /\ formulations' = FormulationsAfterClassify
    /\ UNCHANGED <<medications, medicationWarnings, _medNameIndex, _aliasIndex,
                   _warningIndex, _normCache, pc>>

\* a caller asks whether two formulations are similar; d holds the first of them
AreFormulationsSimilar ==
    /\ pc = "listening"
    /\ \E f1 \in QueryFormInputs, f2 \in QueryFormInputs :
           call' = [op |-> "areFormulationsSimilar", d |-> f1, f |-> f2,
                    result |-> SimilarOutcome(f1, f2)]
    /\ formulations' = FormulationsAfterClassify
    /\ UNCHANGED <<medications, medicationWarnings, _medNameIndex, _aliasIndex,
                   _warningIndex, _normCache, pc>>

NextQueries ==
    \/ init
    \/ LoadFails
    \/ QueryWarningLabels
    \/ StandardizeMedicationName
    \/ StandardizeFormulation
    \/ AreFormulationsSimilar

SpecQueries == Init /\ [][NextQueries]_vars

-----------------------------------------------------------------------------
(* Claims about the indexes                                                *)

\* a query was resolved on built indexes
Resolved == call.op = "findWarningLabels" /\ pc = "served" /\ ~call.result.threw

\* the entries of the warning table that are in list, in table order
EntriesIn(list) == {list[i] : i \in 1..Len(list)}

\* the labels of the first entry of list with a matching formulation, else none
LabelsFrom(list, formulation) ==
    LET hits == {i \in 1..Len(list) :
                    FormMatch(list[i], LowerTrim(formulation),
                              StandardizedForm(LowerTrim(formulation)))}
    IN  IF hits = {} THEN <<>>
        ELSE medicationWarnings[list[CHOOSE i \in hits : \A h \in hits : i <= h]].label_number

\* the list under the key in the warning index, empty when the key is absent
ListUnder(key) ==
    IF key \in DOMAIN _warningIndex.map THEN _warningIndex.map[key] ELSE <<>>

\* the list the precedence of normalized, canonical and raw key selects
PrecedenceList(d) ==
    IF normalizeDrugName(d) \in DOMAIN _warningIndex.map THEN ListUnder(normalizeDrugName(d))
    ELSE IF canonicalizeDrugName(d) \in DOMAIN _warningIndex.map
    THEN ListUnder(canonicalizeDrugName(d))
    ELSE ListUnder(LowerTrim(d))

\* C21: the candidate list of resolve is the list under the normalized key when
\* that key exists, otherwise the one under the canonical key, otherwise the one
\* under the raw key; when the normalized and the canonical key hold different
\* lists, the labels come from the list under the normalized key
C21_KeyPrecedence ==
    (Resolved /\ PrecedenceList(call.d) # <<>>)
        => call.result.value = LabelsFrom(PrecedenceList(call.d), call.f)

C21_Witness ==
    /\ Resolved
    /\ normalizeDrugName(call.d) \in DOMAIN _warningIndex.map
    /\ canonicalizeDrugName(call.d) \in DOMAIN _warningIndex.map
    /\ ListUnder(normalizeDrugName(call.d)) # ListUnder(canonicalizeDrugName(call.d))
    /\ LabelsFrom(ListUnder(normalizeDrugName(call.d)), call.f)
           # LabelsFrom(ListUnder(canonicalizeDrugName(call.d)), call.f)
    /\ call.result.value = LabelsFrom(ListUnder(normalizeDrugName(call.d)), call.f)

\* the keys tried for a record: its name normalized and canonical, then each alias
\* in stored order, normalized and canonical
KeysOfRecord(med) ==
    <<normalizeDrugName(medications[med].name), canonicalizeDrugName(medications[med].name)>>
    \o Flatten([j \in 1..Len(medications[med].aliases) |->
                   <<normalizeDrugName(medications[med].aliases[j]),
                     canonicalizeDrugName(medications[med].aliases[j])>>])

\* the first non-empty list of the warning index among the keys
RECURSIVE FirstListUnder(_)
FirstListUnder(keys) ==
    IF keys = <<>> THEN <<>>
    ELSE IF ListUnder(Head(keys)) # <<>> THEN ListUnder(Head(keys))
    ELSE FirstListUnder(Tail(keys))

\* the record of a name by name index, then alias index, three keys each
ThreeKeyRecord(d) == ProbedRecord(normalizeDrugName(d), canonicalizeDrugName(d), LowerTrim(d))

\* the list the alias fallback reaches, empty when the name has no record
AliasList(d) ==
    IF ThreeKeyRecord(d) = 0 THEN <<>> ELSE FirstListUnder(KeysOfRecord(ThreeKeyRecord(d)))

\* C22: exactly when the direct lookup yields no list, resolve finds the record of
\* the name through the name index and then the alias index (keys normalized,
\* canonical, raw) and takes the first non-empty list under the record's name and
\* alias keys; a direct list without a matching formulation ends the query with
\* no labels
C22_AliasFallback ==
    Resolved =>
        IF PrecedenceList(call.d) = <<>>
        THEN call.result.value = LabelsFrom(AliasList(call.d), call.f)
        ELSE (LabelsFrom(PrecedenceList(call.d), call.f) = <<>> => call.result.value = <<>>)

\* labels reached through a key of an alias while the name index and the alias
\* index hold different records for the query
C22_Witness ==
    /\ Resolved
    /\ PrecedenceList(call.d) = <<>>
    /\ RecordAt(_medNameIndex, normalizeDrugName(call.d)) # 0
    /\ RecordAt(_aliasIndex, normalizeDrugName(call.d))
           \notin {0, RecordAt(_medNameIndex, normalizeDrugName(call.d))}
    /\ ListUnder(normalizeDrugName(medications[ThreeKeyRecord(call.d)].name)) = <<>>
    /\ call.result.value # <<>>

\* a name without its trailing "-Specialist-Drug", whatever the letter case
WithoutMarker(name) ==
    IF EndsWith(toLowerCase(name), <<"-", "s", "p", "e", "c", "i", "a", "l", "i", "s", "t", "-", "d", "r", "u", "g">>)
    THEN SubSeq(name, 1, Len(name) - 16)
    ELSE name

\* the three variants of a string: normalized, canonical, lower-cased and trimmed
ThreeVariants(s) == {normalizeDrugName(s), canonicalizeDrugName(s), LowerTrim(s)}

\* the entries of the warning table with a name that has k among its variants
EntriesNamed(k) ==
    {w \in 1..Len(medicationWarnings) :
        \E n \in 1..Len(medicationWarnings[w].name) :
            k \in ThreeVariants(WithoutMarker(medicationWarnings[w].name[n]))}

\* C23: after the build every list of the warning index is non-empty, holds no
\* entry twice, is in the order of the source table, and holds exactly the entries
\* with a name whose form without the marker has the key among its three variants;
\* entries that share a key are all kept, and every such variant is a key
C23_WarningIndexLists ==
    _warningIndex.built =>
        /\ \A k \in DOMAIN _warningIndex.map :
               LET list == _warningIndex.map[k]
               IN  /\ list # <<>>
                   /\ \A i, j \in 1..Len(list) : i < j => list[i] < list[j]
                   /\ EntriesIn(list) = EntriesNamed(k)
        /\ \A w \in 1..Len(medicationWarnings) :
               \A n \in 1..Len(medicationWarnings[w].name) :
                   ThreeVariants(WithoutMarker(medicationWarnings[w].name[n]))
                       \subseteq DOMAIN _warningIndex.map

\* a key shared by two entries, one of them under it through two of its names
C23_Witness ==
    /\ _warningIndex.built
    /\ \E k \in DOMAIN _warningIndex.map :
           /\ Len(_warningIndex.map[k]) = 2
           /\ \E w \in EntriesIn(_warningIndex.map[k]) :
                  \E n1, n2 \in 1..Len(medicationWarnings[w].name) :
                      /\ n1 # n2
                      /\ k \in ThreeVariants(WithoutMarker(medicationWarnings[w].name[n1]))
                      /\ k \in ThreeVariants(WithoutMarker(medicationWarnings[w].name[n2]))

\* the aliases of record i as a set
AliasesOf(i) == {medications[i].aliases[j] : j \in 1..Len(medications[i].aliases)}

\* the variants of a name with normalizeSeparators for the second of them
SeparatorVariants(s) == {LowerTrim(s), normalizeSeparators(s), canonicalizeDrugName(s)}

BothBuilt == _medNameIndex.built /\ _aliasIndex.built /\ pc # "start"

\* C24: after the build the keys of the name index are exactly the raw
\* lower-cased trimmed, separator-normalized (normalizeSeparators) and canonical
\* form of every record's name, and the keys of the alias index those of every alias
C24_IndexKeysSeparators ==
    BothBuilt =>
        /\ DOMAIN _medNameIndex.map
               = UNION {SeparatorVariants(medications[i].name) : i \in 1..Len(medications)}
        /\ DOMAIN _aliasIndex.map
               = UNION {SeparatorVariants(a) :
                           a \in UNION {AliasesOf(i) : i \in 1..Len(medications)}}

\* C24, amended: the second variant is the one of normalizeDrugName (hyphens and
\* white space only), the function the queries use
C24_IndexKeysBasic ==
    BothBuilt =>
        /\ DOMAIN _medNameIndex.map
               = UNION {ThreeVariants(medications[i].name) : i \in 1..Len(medications)}
        /\ DOMAIN _aliasIndex.map
               = UNION {ThreeVariants(a) :
                           a \in UNION {AliasesOf(i) : i \in 1..Len(medications)}}

\* a built name index over a name whose separator-normalized form is not a key
C24_Witness ==
    /\ BothBuilt
    /\ \E i \in 1..Len(medications) :
           /\ normalizeSeparators(medications[i].name) \notin DOMAIN _medNameIndex.map
           /\ ThreeVariants(medications[i].name) \subseteq DOMAIN _medNameIndex.map
    /\ DOMAIN _aliasIndex.map # {}

\* the records whose name has k among its variants, and those with such an alias
RecordsNamed(k) == {i \in 1..Len(medications) : k \in ThreeVariants(medications[i].name)}

RecordsAliased(k) ==
    {i \in 1..Len(medications) : \E a \in AliasesOf(i) : k \in ThreeVariants(a)}

Last(positions) == CHOOSE i \in positions : \A j \in positions : j <= i

\* C25: after the build every key of the name index holds the last record, in
\* table order, whose name has the key among its variants, and every key of the
\* alias index the last record with such an alias
C25_LastWriterWins ==
    BothBuilt =>
        /\ \A k \in DOMAIN _medNameIndex.map :
               RecordsNamed(k) # {} /\ _medNameIndex.map[k] = Last(RecordsNamed(k))
        /\ \A k \in DOMAIN _aliasIndex.map :
               RecordsAliased(k) # {} /\ _aliasIndex.map[k] = Last(RecordsAliased(k))

\* two different records collide on a key of each index
C25_Witness ==
    /\ BothBuilt
    /\ Len(medications) = 2
    /\ medications[1].name # medications[2].name
    /\ \E k \in DOMAIN _medNameIndex.map : RecordsNamed(k) = {1, 2}
    /\ \E k \in DOMAIN _aliasIndex.map : RecordsAliased(k) = {1, 2}

BuiltIndexes == <<_warningIndex, _medNameIndex, _aliasIndex>>

\* C29: in a built index a key equal to the lower-cased trimmed query comes with
\* the key of the normalized query, so the two-key probing of the alias fallback
\* of findWarningLabels selects the record the three-key probing selects
C29_RawProbeRedundant ==
    BothBuilt =>
        \A q \in IndexDrugInputs :
            /\ \A x \in 1..3 :
                   Has(BuiltIndexes[x], LowerTrim(q))
                       => Has(BuiltIndexes[x], normalizeDrugName(q))
            /\ RecordOf(q) = ThreeKeyRecord(q)

\* a query was served whose raw key differs from its normalized key and is a key
\* of the name or alias index, the record found being the one of both probings,
\* while the warning index holds the hyphenated raw key of a stripped name
C29_Witness ==
    /\ pc = "served"
    /\ LowerTrim(call.d) # normalizeDrugName(call.d)
    /\ \/ Has(_medNameIndex, LowerTrim(call.d))
       \/ Has(_aliasIndex, LowerTrim(call.d))
    /\ Has(_warningIndex, <<"a", "-", "b">>)
    /\ RecordOf(call.d) # 0
    /\ RecordOf(call.d) = ThreeKeyRecord(call.d)

-----------------------------------------------------------------------------
(* Claims about the queries                                                *)

\* C26: once start-up has ended, no call of findWarningLabels,
\* standardizeMedicationName, standardizeFormulation or areFormulationsSimilar
\* changes the three indexes or the reference tables
C26_QueriesKeepIndexes ==
    [][pc = "listening"
           => UNCHANGED <<medications, formulations, medicationWarnings,
                          _medNameIndex, _aliasIndex, _warningIndex>>]_vars

\* a formulation query answered over built indexes, after a name query has added
\* to the cache a string the build had not seen
C26_Witness ==
    /\ pc = "listening"
    /\ _warningIndex.built /\ _medNameIndex.built /\ _aliasIndex.built
    /\ call.op \in {"standardizeFormulation", "areFormulationsSimilar"}
    /\ call.f = <<"C", "p">>
    /\ ~call.result.threw
    /\ \E s \in QueryDrugInputs :
           /\ CacheKey("n", s) \in DOMAIN _normCache
           /\ ~InList(BuildStrings(medications, medicationWarnings), s)

\* the entries of the cache are the values of the two functions
CacheHoldsValues ==
    \A key \in DOMAIN _normCache :
        /\ Len(key) > 2
        /\ key[2] = ":"
        /\ key[1] \in {"n", "c"}
        /\ key[1] = "n" => _normCache[key] = normalizeDrugName(SubSeq(key, 3, Len(key)))
        /\ key[1] = "c" => _normCache[key] = canonicalizeDrugName(SubSeq(key, 3, Len(key)))

\* a cached call returns what the function returns
CacheTransparent ==
    \A s \in (QueryDrugInputs \cup DrugInputs) \ {NULL} :
        /\ _cachedNormalize(s) = normalizeDrugName(s)
        /\ _cachedCanonicalize(s) = canonicalizeDrugName(s)

\* C27: every entry of the cache under 'n:' + s holds normalizeDrugName(s) and
\* every entry under 'c:' + s holds canonicalizeDrugName(s), the prefix keeping
\* the entries of the two functions apart; no step removes an entry or changes
\* its value; a cached call returns what the function returns
C27_CacheIsMemo ==
    /\ [](CacheHoldsValues /\ CacheTransparent)
    /\ [][\A key \in DOMAIN _normCache :
              key \in DOMAIN _normCache' /\ _normCache'[key] = _normCache[key]]_vars

\* the cache holds both entries of a queried name whose two forms differ, next to
\* the entries of the build
C27_Witness ==
    /\ pc = "listening"
    /\ _warningIndex.built
    /\ call.op = "standardizeMedicationName"
    /\ CacheKey("n", call.d) \in DOMAIN _normCache
    /\ CacheKey("c", call.d) \in DOMAIN _normCache
    /\ _normCache[CacheKey("n", call.d)] # _normCache[CacheKey("c", call.d)]
    /\ ~InList(BuildStrings(medications, medicationWarnings), call.d)
    /\ BuildStrings(medications, medicationWarnings) # <<>>

-----------------------------------------------------------------------------
(* Claims about the placeholders and the static table                      *)

\* the matches of the preserve patterns in the input: a run of digits from its
\* first digit on, followed by the tail of a pattern
ProtectedMatches(input) ==
    {SubSeq(input, i, PatternMatch(index, input, i) - 1) :
        <<i, index>> \in {p \in (1..Len(input)) \X (1..Len(preservePatterns)) :
                             /\ PatternMatch(p[2], input, p[1]) # 0
                             /\ (p[1] = 1 \/ input[p[1] - 1] \notin Digit)}}

\* C28: in a call of translateShorthand, whatever suffixes are drawn, every
\* protected match gets a placeholder of its own, and the string after hyphen
\* replacement and restoration holds no placeholder text and every protected
\* match as it was written
C28_PlaceholderRoundTrip ==
    call.op = "translateShorthand" /\ ~Falsy(call.a) =>
        /\ Len(Preserved(trim(call.a), call.b).map) = Preserved(trim(call.a), call.b).used
        /\ ~includes(Preprocessed(trim(call.a), call.b), <<"_", "_">>)
        /\ \A match \in ProtectedMatches(trim(call.a)) :
               includes(Preprocessed(trim(call.a), call.b), match)

\* C30: for every key of the static table that a dosage, range or duration
\* pattern also matches, the static text is the text the pattern rule generates,
\* so getFullText returns the generated text although it consults the table first
C30_StaticAgreesWithRules ==
    /\ call.op = "getFullText"
    /\ ~Falsy(call.a)
    /\ LowerTrim(call.a) \in DOMAIN lowercaseMappings
    /\ GeneratedText(LowerTrim(call.a)) # NULL
    => /\ lowercaseMappings[LowerTrim(call.a)] = GeneratedText(LowerTrim(call.a))
       /\ call.result = GeneratedText(LowerTrim(call.a))

\* getFullText has answered from the table for a key each kind of rule matches
C30_Witness ==
    /\ call.op = "getFullText"
    /\ call.a \in {<<"0", ".", "5", "t">>, <<"1", "t">>, <<"2", "c">>, <<"5", "m", "l">>, <<"7", "/", "7">>, <<"1", "/", "5", "2">>, <<"6", "/", "1", "2">>}
    /\ call.a \in DOMAIN lowercaseMappings
    /\ GeneratedText(call.a) # NULL
    /\ call.result = lowercaseMappings[call.a]


====
